---- MODULE Spec2Model ----
(***************************************************************************)
(* A model of the imageoi package (jsy1001/OI-Interface-Tools):            *)
(*   - mergeheaders             (src/imageoi/ImagingFile.py)               *)
(*   - HDUListPlus.__getitem__  (src/imageoi/fitshelpers.py)               *)
(*   - ImagingFile              (src/imageoi/ImagingFile.py)               *)
(*   - GreyImg                  (src/imageoi/GreyImg.py)                   *)
(*                                                                         *)
(* A FITS header is a sequence of cards [key, value, comment]; a value is  *)
(* a record [t, s, n] (type tag, string part, integer part) so that any    *)
(* two values can be compared.  A file is a sequence of HDUs.  The         *)
(* container codec (astropy.io.fits) is taken to store and return cards    *)
(* and pixel data faithfully.  A floating-point number is an integer count *)
(* of 1/Unit, and every floating-point operation rounds its exact result   *)
(* to SigBits significant bits, ties to even.                              *)
(***************************************************************************)
EXTENDS Integers, Sequences, FiniteSets, TLC

VARIABLES
    headers,    \* mergeheaders: the list of headers being assembled
    merged,     \* mergeheaders: outcome of the call, NotRun before it
    hdulist,    \* HDUListPlus: the sections of the container
    index,      \* HDUListPlus: the index of the last lookup
    found,      \* HDUListPlus: outcome of the last lookup, NotRun before it
    fs,         \* the files: path -> NoFile or the sequence of sections
    obj,        \* the ImagingFile object in hand, NoObject before construction
    err,        \* the exception the last operation raised, "none" if none
    writer,     \* path -> the object as it was when it last wrote the path
    lastop,     \* the last operation and its arguments
    steps,      \* number of operations made
    canvas,     \* GreyImg: the canvas in hand, NotRun before it is created
    raised,     \* GreyImg: the exception the last operation raised
    called,      \* GreyImg: the last operation and its arguments
    history,    \* GreyImg: the creation arguments and the fluxes added since
    nops        \* GreyImg: number of operations made

mergeVars == <<headers, merged>>
lookupVars == <<hdulist, index, found>>
fileVars == <<fs, obj, err, writer, lastop, steps>>
imgVars == <<canvas, raised, called, history, nops>>
vars == <<headers, merged, hdulist, index, found, fs, obj, err, writer, lastop, steps,
          canvas, raised, called, history, nops>>

-----------------------------------------------------------------------------
(* Values and cards *)

StrVal(s) == [t |-> "str", s |-> s, n |-> 0]
IntVal(n) == [t |-> "int", s |-> "", n |-> n]
FloatVal(s) == [t |-> "float", s |-> s, n |-> 0]
BoolVal(b) == [t |-> "bool", s |-> "", n |-> IF b THEN 1 ELSE 0]
NoneVal == [t |-> "none", s |-> "", n |-> 0]

Card(k, v, c) == [key |-> k, value |-> v, comment |-> c]

COMMENTARY == {"COMMENT", "HISTORY"}

NotRun == [status |-> "notrun"]

-----------------------------------------------------------------------------
(* fits.Header as the code uses it: `key in hdr`, hdr[key], hdr[key] = v,  *)
(* iteration over the keywords, hdr['COMMENT'] as the list of values.      *)

HasKey(hdr, key) == \E i \in 1..Len(hdr) : hdr[i].key = key

FirstIndex(hdr, key) ==
    CHOOSE i \in 1..Len(hdr) :
        hdr[i].key = key /\ \A j \in 1..(i - 1) : hdr[j].key # key

LastIndex(hdr, key) ==
    CHOOSE i \in 1..Len(hdr) :
        hdr[i].key = key /\ \A j \in (i + 1)..Len(hdr) : hdr[j].key # key

GetValue(hdr, key) == hdr[FirstIndex(hdr, key)].value

GetComment(hdr, key) == hdr[FirstIndex(hdr, key)].comment

InsertAt(seq, i, x) == SubSeq(seq, 1, i) \o <<x>> \o SubSeq(seq, i + 1, Len(seq))

\* hdr[key] = value: a commentary keyword adds a card after the last card of
\* its kind; another keyword updates its first card in place (keeping the
\* comment) or is appended.
SetValue(hdr, key, value) ==
    IF key \in COMMENTARY
    THEN IF HasKey(hdr, key)
         THEN InsertAt(hdr, LastIndex(hdr, key), Card(key, value, ""))
         ELSE Append(hdr, Card(key, value, ""))
    ELSE IF HasKey(hdr, key)
         THEN [hdr EXCEPT ![FirstIndex(hdr, key)].value = value]
         ELSE Append(hdr, Card(key, value, ""))

\* hdr['COMMENT'], hdr['HISTORY']: the values of the cards of that kind, in order
RECURSIVE CommentaryValues(_, _)
CommentaryValues(hdr, key) ==
    IF hdr = <<>> THEN <<>>
    ELSE IF Head(hdr).key = key
         THEN <<Head(hdr).value>> \o CommentaryValues(Tail(hdr), key)
         ELSE CommentaryValues(Tail(hdr), key)

-----------------------------------------------------------------------------
(* mergeheaders *)

MergeOk(hdr) == [ok |-> TRUE, hdr |-> hdr, key |-> "", current |-> NoneVal, new |-> NoneVal]

\* raise ValueError("Cannot merge: non-identical values for '%s' keyword (%r, %r)")
MergeValueError(key, current, new) ==
    [ok |-> FALSE, hdr |-> <<>>, key |-> key, current |-> current, new |-> new]

\* A merge that lets a later header overwrite the value instead of raising.
RECURSIVE MergeScalarKeysLastWins(_, _, _)
MergeScalarKeysLastWins(ret, hdr, i) ==
    IF ~ret.ok \/ i > Len(hdr) THEN ret
    ELSE LET key == hdr[i].key IN
         IF key \in COMMENTARY THEN MergeScalarKeysLastWins(ret, hdr, i + 1)
         ELSE MergeScalarKeysLastWins(MergeOk(SetValue(ret.hdr, key, GetValue(hdr, key))),
                                      hdr, i + 1)

\* for key in hdr: ... (the scalar keywords of one header)
RECURSIVE MergeScalarKeys(_, _, _)
MergeScalarKeys(ret, hdr, i) ==
    IF ~ret.ok \/ i > Len(hdr) THEN ret
    ELSE LET key == hdr[i].key IN
         IF key \in COMMENTARY THEN MergeScalarKeys(ret, hdr, i + 1)
         ELSE IF HasKey(ret.hdr, key)
              THEN IF GetValue(ret.hdr, key) # GetValue(hdr, key)
                   THEN MergeValueError(key, GetValue(ret.hdr, key), GetValue(hdr, key))
                   ELSE MergeScalarKeys(ret, hdr, i + 1)
              ELSE MergeScalarKeys(MergeOk(SetValue(ret.hdr, key, GetValue(hdr, key))),
                                   hdr, i + 1)

\* A merge that drops a commentary value the result already holds.
RECURSIVE AppendCommentaryDedup(_, _, _)
AppendCommentaryDedup(ret, key, values) ==
    IF values = <<>> THEN ret
    ELSE IF \E i \in 1..Len(ret) : ret[i].key = key /\ ret[i].value = Head(values)
         THEN AppendCommentaryDedup(ret, key, Tail(values))
         ELSE AppendCommentaryDedup(SetValue(ret, key, Head(values)), key, Tail(values))

\* for value in hdr[key]: ret[key] = value
RECURSIVE AppendCommentary(_, _, _)
AppendCommentary(ret, key, values) ==
    IF values = <<>> THEN ret
    ELSE AppendCommentary(SetValue(ret, key, Head(values)), key, Tail(values))

MergeOneHeader(ret, hdr) ==
    LET scalars == MergeScalarKeys(ret, hdr, 1) IN
    IF ~scalars.ok THEN scalars
    ELSE MergeOk(AppendCommentary(
                    AppendCommentary(scalars.hdr, "COMMENT", CommentaryValues(hdr, "COMMENT")),
                    "HISTORY", CommentaryValues(hdr, "HISTORY")))

RECURSIVE MergeFrom(_, _)
MergeFrom(ret, hdrs) ==
    IF ~ret.ok \/ hdrs = <<>> THEN ret
    ELSE MergeFrom(MergeOneHeader(ret, Head(hdrs)), Tail(hdrs))

mergeheaders(hdrs) == MergeFrom(MergeOk(<<>>), hdrs)

-----------------------------------------------------------------------------
(* Specification of mergeheaders: headers are assembled card by card, then *)
(* merged.                                                                 *)

MaxHeaders == 3
MaxCards == 3

MergeKeys == {"TELESCOP", "HDUNAME", "COMMENT", "HISTORY"}
MergeValues == {StrVal("CHARA"), StrVal("IOTA")}

RECURSIVE TotalCards(_)
TotalCards(hdrs) == IF hdrs = <<>> THEN 0 ELSE Len(Head(hdrs)) + TotalCards(Tail(hdrs))

IdleLookup == hdulist = <<>> /\ index = NotRun /\ found = NotRun
IdleMerge == headers = <<>> /\ merged = NotRun
IdleFiles ==
    /\ fs = <<>> /\ obj = NotRun /\ err = "none"
    /\ writer = <<>> /\ lastop = NotRun /\ steps = 0
IdleImg ==
    /\ canvas = NotRun /\ raised = "none"
    /\ called = NotRun /\ history = NotRun /\ nops = 0

InitMerge == headers = <<>> /\ merged = NotRun /\ IdleLookup /\ IdleFiles /\ IdleImg

NewHeader ==
    /\ merged = NotRun
    /\ Len(headers) < MaxHeaders
    /\ headers' = Append(headers, <<>>)
    /\ UNCHANGED <<merged, lookupVars, fileVars, imgVars>>

AddCard(key, value) ==
    /\ merged = NotRun
    /\ headers # <<>>
    /\ TotalCards(headers) < MaxCards
    /\ headers' = [headers EXCEPT ![Len(headers)] = Append(@, Card(key, value, ""))]
    /\ UNCHANGED <<merged, lookupVars, fileVars, imgVars>>

Mergeheaders ==
    /\ merged = NotRun
    /\ merged' = [status |-> "done", result |-> mergeheaders(headers)]
    /\ UNCHANGED <<headers, lookupVars, fileVars, imgVars>>

NextMerge ==
    \/ NewHeader
    \/ \E key \in MergeKeys, value \in MergeValues : AddCard(key, value)
    \/ Mergeheaders

SpecMerge == InitMerge /\ [][NextMerge]_vars

-----------------------------------------------------------------------------
(* Properties of mergeheaders *)

Holders(hdrs, key) == {i \in 1..Len(hdrs) : HasKey(hdrs[i], key)}

FirstHolder(hdrs, key) ==
    CHOOSE i \in Holders(hdrs, key) : \A j \in Holders(hdrs, key) : i <= j

Conflicting(hdrs, key) ==
    \E i, j \in Holders(hdrs, key) : GetValue(hdrs[i], key) # GetValue(hdrs[j], key)

RECURSIVE ConcatCommentary(_, _)
ConcatCommentary(hdrs, key) ==
    IF hdrs = <<>> THEN <<>>
    ELSE CommentaryValues(Head(hdrs), key) \o ConcatCommentary(Tail(hdrs), key)

RECURSIVE SumCommentary(_, _)
SumCommentary(hdrs, key) ==
    IF hdrs = <<>> THEN 0
    ELSE Cardinality({i \in 1..Len(Head(hdrs)) : Head(hdrs)[i].key = key})
         + SumCommentary(Tail(hdrs), key)

MergeDone == merged # NotRun

\* C6: for every keyword other than COMMENT and HISTORY the first header
\* holding it establishes the value of the result; equal later values merge,
\* a differing later value raises ValueError naming the keyword and both
\* values, and no result is returned.
C6_FirstValueOrConflict ==
    MergeDone =>
        LET r == merged.result
            keys == {k \in MergeKeys \ COMMENTARY : Holders(headers, k) # {}}
        IN  /\ r.ok <=> \A k \in keys : ~Conflicting(headers, k)
            /\ r.ok => \A k \in keys :
                         /\ HasKey(r.hdr, k)
                         /\ GetValue(r.hdr, k) = GetValue(headers[FirstHolder(headers, k)], k)
                         /\ \A i \in Holders(headers, k) :
                                GetValue(headers[i], k) = GetValue(r.hdr, k)
            /\ ~r.ok =>
                  /\ r.hdr = <<>>
                  /\ r.key \in keys
                  /\ r.current = GetValue(headers[FirstHolder(headers, r.key)], r.key)
                  /\ r.new # r.current
                  /\ \E j \in Holders(headers, r.key) :
                        j > FirstHolder(headers, r.key) /\ r.new = GetValue(headers[j], r.key)

\* C6 witness: two headers agree on a keyword and a third one differs, so the
\* merge went through an equal value and then raised.
C6_Witness ==
    /\ MergeDone /\ ~merged.result.ok
    /\ Len(headers) = 3
    /\ \E k \in MergeKeys \ COMMENTARY :
          /\ Holders(headers, k) = {1, 2, 3}
          /\ GetValue(headers[1], k) = GetValue(headers[2], k)
          /\ GetValue(headers[3], k) # GetValue(headers[1], k)

\* C7: the COMMENT and HISTORY values of the result are those of the input
\* headers concatenated in list order, each header's values in their order,
\* not deduplicated; their number is the sum of the inputs' numbers.
C7_CommentaryConcatenated ==
    (MergeDone /\ merged.result.ok) =>
        \A k \in COMMENTARY :
            /\ CommentaryValues(merged.result.hdr, k) = ConcatCommentary(headers, k)
            /\ Len(CommentaryValues(merged.result.hdr, k)) = SumCommentary(headers, k)

\* C7 witness: a successful merge of two headers repeating a HISTORY value.
C7_Witness ==
    /\ MergeDone /\ merged.result.ok
    /\ Len(headers) >= 2
    /\ \E v \in MergeValues :
          /\ Card("HISTORY", v, "") \in {headers[1][j] : j \in 1..Len(headers[1])}
          /\ Card("HISTORY", v, "") \in {headers[2][j] : j \in 1..Len(headers[2])}
    /\ Len(CommentaryValues(merged.result.hdr, "HISTORY")) >= 3

\* The orders a list of n headers can be given in
Orders(n) == {f \in [1..n -> 1..n] : \A i, j \in 1..n : f[i] = f[j] => i = j}

Reordered(hdrs, f) == [i \in 1..Len(hdrs) |-> hdrs[f[i]]]

\* The scalar keywords of a header, each with the value hdr[key] gives
ScalarMap(hdr) ==
    {<<hdr[i].key, GetValue(hdr, hdr[i].key)>> : i \in {j \in 1..Len(hdr) : hdr[j].key \notin COMMENTARY}}

\* How many cards of a commentary keyword carry a value
Copies(hdr, key, value) == Cardinality({i \in 1..Len(hdr) : hdr[i].key = key /\ hdr[i].value = value})

SameCommentary(a, b) ==
    \A key \in COMMENTARY : \A value \in MergeValues :
        Copies(a, key, value) = Copies(b, key, value)

\* C30: the outcome of mergeheaders does not depend on the order of its
\* inputs: the merge of a permuted list raises a conflict if and only if the
\* merge of the list does, and when both succeed the results map every scalar
\* key to the same value and hold the same multiset of COMMENT and HISTORY
\* values; a header merged with itself yields its own scalar keys and values.
C30_OrderIndependent ==
    MergeDone =>
        /\ \A f \in Orders(Len(headers)) :
              LET other == mergeheaders(Reordered(headers, f)) IN
              /\ other.ok <=> merged.result.ok
              /\ (other.ok /\ merged.result.ok) =>
                    /\ ScalarMap(other.hdr) = ScalarMap(merged.result.hdr)
                    /\ SameCommentary(other.hdr, merged.result.hdr)
        /\ \A i \in 1..Len(headers) :
              LET twice == mergeheaders(<<headers[i], headers[i]>>) IN
              twice.ok /\ ScalarMap(twice.hdr) = ScalarMap(headers[i])

\* C30 witness: two headers with different scalar keywords and a commentary
\* card each were merged; the other order gives other cards in another order
\* and the same keys, values and commentary
C30_Witness ==
    /\ MergeDone /\ merged.result.ok /\ Len(headers) = 2
    /\ ScalarMap(headers[1]) # {} /\ ScalarMap(headers[2]) # {}
    /\ ScalarMap(headers[1]) # ScalarMap(headers[2])
    /\ mergeheaders(<<headers[2], headers[1]>>).hdr # merged.result.hdr

\* A list with a conflict, which raises in either order, with the two
\* values named the other way round
C30_WitnessConflict ==
    /\ MergeDone /\ ~merged.result.ok /\ Len(headers) = 3
    /\ ~mergeheaders(<<headers[3], headers[2], headers[1]>>).ok
    /\ merged.result.current # mergeheaders(<<headers[3], headers[2], headers[1]>>).current

-----------------------------------------------------------------------------
(* HDUListPlus.__getitem__ *)

\* A section: its kind ("primary", "image" or "table"), header and pixel data
HDU(kind, header, data) == [kind |-> kind, header |-> header, data |-> data]

\* The kinds of index: position, name, (name, version)
IndexPos(p) == [kind |-> "pos", pos |-> p, name |-> "", ver |-> 0]
IndexName(n) == [kind |-> "name", pos |-> 0, name |-> n, ver |-> 0]
IndexPair(n, v) == [kind |-> "pair", pos |-> 0, name |-> n, ver |-> v]

\* Outcome of a lookup: the section at (1-based) place `at`, or the exception
LookupOk(i) == [status |-> "ok", at |-> i]
LookupKeyError == [status |-> "KeyError", at |-> 0]
LookupIndexError == [status |-> "IndexError", at |-> 0]

\* str.upper() on the names of the model
Upper(name) ==
    CASE name = "test_name" -> "TEST_NAME"
      [] name = "test" -> "TEST"
      [] name = "primary" -> "PRIMARY"
      [] OTHER -> name

\* hdu.name: EXTNAME, or the default name of the kind of section
HduName(hdu) ==
    IF HasKey(hdu.header, "EXTNAME") THEN GetValue(hdu.header, "EXTNAME").s
    ELSE IF hdu.kind = "primary" THEN "PRIMARY" ELSE ""

\* hdu.ver: EXTVER, 1 by default
HduVer(hdu) ==
    IF HasKey(hdu.header, "EXTVER") THEN GetValue(hdu.header, "EXTVER").n ELSE 1

\* The test of fits.HDUList.index_of for the section at place i
NativeMatch(hdus, i, idx) ==
    /\ idx.kind \in {"name", "pair"}
    /\ \/ Upper(HduName(hdus[i])) = Upper(idx.name)
       \/ (Upper(idx.name) = "PRIMARY" /\ i = 1)
    /\ (idx.kind = "name" \/ idx.ver = HduVer(hdus[i]))

RECURSIVE NativeScan(_, _, _)
NativeScan(hdus, idx, i) ==
    IF i > Len(hdus) THEN LookupKeyError
    ELSE IF NativeMatch(hdus, i, idx) THEN LookupOk(i)
    ELSE NativeScan(hdus, idx, i + 1)

\* fits.HDUList.__getitem__: a position indexes the list as a Python list
\* does (negative positions count from the end), a name or pair is searched.
HDUListGetItem(hdus, idx) ==
    IF idx.kind = "pos"
    THEN IF idx.pos >= 0 /\ idx.pos < Len(hdus) THEN LookupOk(idx.pos + 1)
         ELSE IF idx.pos < 0 /\ -idx.pos <= Len(hdus) THEN LookupOk(Len(hdus) + idx.pos + 1)
         ELSE LookupIndexError
    ELSE NativeScan(hdus, idx, 1)

\* name == index or (name, ver) == index, with name and ver as the try block
\* leaves them: ver is read only when HDUNAME is present.
HduNameMatch(hdu, idx) ==
    LET hasname == HasKey(hdu.header, "HDUNAME")
        hasver == hasname /\ HasKey(hdu.header, "HDUVER")
    IN  \/ idx.kind = "name" /\ hasname /\ GetValue(hdu.header, "HDUNAME").s = idx.name
        \/ /\ idx.kind = "pair" /\ hasver
           /\ GetValue(hdu.header, "HDUNAME").s = idx.name
           /\ GetValue(hdu.header, "HDUVER").n = idx.ver

\* A scan that returns the last section matching instead of the first.
RECURSIVE HduNameScanLast(_, _, _)
HduNameScanLast(hdus, idx, i) ==
    IF i > Len(hdus) THEN LookupKeyError
    ELSE LET rest == HduNameScanLast(hdus, idx, i + 1) IN
         IF rest.status = "ok" THEN rest
         ELSE IF HduNameMatch(hdus[i], idx) THEN LookupOk(i) ELSE rest

\* for hdu in self: ... return hdu; raise KeyError
RECURSIVE HduNameScan(_, _, _)
HduNameScan(hdus, idx, i) ==
    IF i > Len(hdus) THEN LookupKeyError
    ELSE IF HduNameMatch(hdus[i], idx) THEN LookupOk(i)
    ELSE HduNameScan(hdus, idx, i + 1)

\* A lookup that scans HDUNAME before trying the native lookup.
getitemHduNameFirst(hdus, idx) ==
    LET scan == HduNameScan(hdus, idx, 1) IN
    IF idx.kind # "pos" /\ scan.status = "ok" THEN scan ELSE HDUListGetItem(hdus, idx)

\* A lookup that turns every failure of the native lookup into a scan.
getitemCatchAll(hdus, idx) ==
    LET native == HDUListGetItem(hdus, idx) IN
    IF native.status = "ok" THEN native ELSE HduNameScan(hdus, idx, 1)

\* HDUListPlus.__getitem__
getitem(hdus, idx) ==
    LET native == HDUListGetItem(hdus, idx) IN
    IF native.status # "KeyError" THEN native ELSE HduNameScan(hdus, idx, 1)

-----------------------------------------------------------------------------
(* Specification of the lookup: a container is assembled section by        *)
(* section (as in the set-up of tests/test_fitshelpers.py), then indexed.  *)

MaxHDUs == 2

LookupNames == {"test_name", "TEST_NAME"}
LookupVers == {1, 2}
Absent == "<absent>"

\* The header of a section with the given EXTNAME, EXTVER, HDUNAME, HDUVER
\* (Absent or 0 for a keyword that is not set)
NamedHeader(extname, extver, hduname, hduver) ==
    (IF extname = Absent THEN <<>> ELSE <<Card("EXTNAME", StrVal(extname), "")>>)
    \o (IF extver = 0 THEN <<>> ELSE <<Card("EXTVER", IntVal(extver), "")>>)
    \o (IF hduname = Absent THEN <<>> ELSE <<Card("HDUNAME", StrVal(hduname), "")>>)
    \o (IF hduver = 0 THEN <<>> ELSE <<Card("HDUVER", IntVal(hduver), "")>>)

LookupIndexes ==
    {IndexPos(p) : p \in (-(MaxHDUs + 1))..MaxHDUs}
    \cup {IndexName(n) : n \in LookupNames \cup {"PRIMARY"}}
    \cup {IndexPair(n, v) : n \in LookupNames, v \in LookupVers}

InitLookup ==
    hdulist = <<>> /\ index = NotRun /\ found = NotRun /\ IdleMerge /\ IdleFiles /\ IdleImg

AppendHDU(extname, extver, hduname, hduver) ==
    /\ found = NotRun
    /\ Len(hdulist) < MaxHDUs
    /\ hdulist' = Append(hdulist,
                         HDU(IF hdulist = <<>> THEN "primary" ELSE "table",
                             NamedHeader(extname, extver, hduname, hduver), <<>>))
    /\ UNCHANGED <<index, found, mergeVars, fileVars, imgVars>>

Lookup(idx) ==
    /\ found = NotRun
    /\ index' = idx
    /\ found' = getitem(hdulist, idx)
    /\ UNCHANGED <<hdulist, mergeVars, fileVars, imgVars>>

NextLookup ==
    \/ \E extname \in LookupNames \cup {Absent}, extver \in {0, 2},
          hduname \in LookupNames \cup {Absent}, hduver \in {0, 2} :
            AppendHDU(extname, extver, hduname, hduver)
    \/ \E idx \in LookupIndexes : Lookup(idx)

SpecLookup == InitLookup /\ [][NextLookup]_vars

-----------------------------------------------------------------------------
(* Properties of the lookup *)

LookupDone == found # NotRun

NativeMatches == {i \in 1..Len(hdulist) : NativeMatch(hdulist, i, index)}
HduNameMatches == {i \in 1..Len(hdulist) : HduNameMatch(hdulist[i], index)}

\* C8: the native lookup (position, EXTNAME, (EXTNAME, EXTVER)) is tried
\* first; a section that matches natively is returned even when another
\* section, at any place, carries the index as its HDUNAME; the HDUNAME scan
\* runs in position order only after a native key miss.
C8_NativeLookupFirst ==
    (LookupDone /\ index.kind # "pos") =>
        /\ NativeMatches # {} =>
              /\ found.status = "ok"
              /\ found.at \in NativeMatches
              /\ \A i \in NativeMatches : found.at <= i
        /\ (NativeMatches = {} /\ HduNameMatches # {}) =>
              /\ found.status = "ok"
              /\ found.at \in HduNameMatches
              /\ \A i \in HduNameMatches : found.at <= i

\* C8 witness: the second section matches natively while the first carries
\* the index as its HDUNAME, and the second is returned.
C8_Witness ==
    /\ LookupDone /\ index.kind = "name"
    /\ Len(hdulist) = 2
    /\ HduNameMatch(hdulist[1], index) /\ ~NativeMatch(hdulist, 1, index)
    /\ NativeMatch(hdulist, 2, index)
    /\ found = LookupOk(2)

\* C9: a lookup that matches no section returns none: a name or pair that
\* matches no EXTNAME/EXTVER and no HDUNAME/HDUVER raises KeyError, a position
\* outside the container raises IndexError, and position 0 succeeds on every
\* container that is not empty.
C9_MissRaises ==
    LookupDone =>
        /\ found.status = "ok" =>
              /\ found.at \in 1..Len(hdulist)
              /\ index.kind # "pos" =>
                    found.at \in NativeMatches \cup HduNameMatches
        /\ (index.kind # "pos" /\ NativeMatches \cup HduNameMatches = {}) =>
              found = LookupKeyError
        /\ (index.kind = "pos" /\ (index.pos >= Len(hdulist) \/ index.pos < -Len(hdulist))) =>
              found = LookupIndexError
        /\ (index = IndexPos(0) /\ hdulist # <<>>) => found = LookupOk(1)

\* C9 witness: a position outside a container in which a section carries
\* HDUNAME, answered with IndexError.
C9_Witness ==
    /\ LookupDone /\ index.kind = "pos" /\ index.pos = Len(hdulist)
    /\ Len(hdulist) = 2 /\ HasKey(hdulist[2].header, "HDUNAME")
    /\ found = LookupIndexError

\* C9 second case, a name that no section carries, answered with KeyError
C9_WitnessKeyMiss ==
    /\ LookupDone /\ index.kind = "name" /\ Len(hdulist) = 2
    /\ HasKey(hdulist[2].header, "HDUNAME") /\ HasKey(hdulist[2].header, "EXTNAME")
    /\ found = LookupKeyError

\* C10 as stated: a lookup by (HDUNAME, HDUVER) returns a section only if
\* exactly one section of the container carries that pair.
C10_OnlyIfExactlyOne ==
    (LookupDone /\ index.kind = "pair" /\ NativeMatches = {} /\ found.status = "ok") =>
        Cardinality(HduNameMatches) = 1

\* C10 amended: a lookup by (HDUNAME, HDUVER) that no section matches natively
\* returns the first section in position order carrying that pair, also when
\* two or more sections carry it, and raises KeyError only when none does.
C10_FirstOfMatching ==
    (LookupDone /\ index.kind = "pair" /\ NativeMatches = {}) =>
        /\ HduNameMatches = {} => found = LookupKeyError
        /\ HduNameMatches # {} =>
              /\ found.status = "ok"
              /\ found.at \in HduNameMatches
              /\ \A i \in HduNameMatches : found.at <= i

\* C10 witness: two sections carry the pair and the first is returned.
C10_Witness ==
    /\ LookupDone /\ index.kind = "pair" /\ NativeMatches = {}
    /\ Cardinality(HduNameMatches) = 2
    /\ found = LookupOk(1)

-----------------------------------------------------------------------------
(* Constants of imageoi.ImagingFile *)

INIT_IMG_NAME == "IMAGE-OI INITIAL IMAGE"
PRIOR_IMG_NAME == "IMAGE-OI PRIOR IMAGE"
INPUT_PARAM_NAME == "IMAGE-OI INPUT PARAM"
OUTPUT_PARAM_NAME == "IMAGE-OI OUTPUT PARAM"

RESERVED_KEYWORDS ==
    {"XTENSION", "BITPIX", "NAXIS", "NAXIS1", "NAXIS2", "PCOUNT", "GCOUNT",
     "TFIELDS", "EXTNAME", "EXTVER", "HDUNAME", "HDUVER"}

DEFAULT_PARAM ==
    << <<"TARGET", NoneVal>>, <<"WAVE_MIN", FloatVal("0.1e-6")>>,
       <<"WAVE_MAX", FloatVal("50e-6")>>, <<"USE_VIS", StrVal("ALL")>>,
       <<"USE_VIS2", BoolVal(TRUE)>>, <<"USE_T3", StrVal("ALL")>>,
       <<"MAXITER", IntVal(200)>>, <<"RGL_NAME", StrVal("mem_prior")>>,
       <<"AUTO_WGT", BoolVal(FALSE)>>, <<"RGL_WGT", FloatVal("1e5")>>,
       <<"FLUX", FloatVal("1.0")>>, <<"FLUXERR", FloatVal("0.0")>> >>

PARAM_COMMENTS ==
    ("TARGET" :> "Identifier of target to select")
    @@ ("WAVE_MIN" :> "[m] Minimum wavelength to select")
    @@ ("WAVE_MAX" :> "[m] Maximum wavelength to select")
    @@ ("USE_VIS" :> "Complex visibility data to use if any")
    @@ ("USE_VIS2" :> "Use squared visibility data if any")
    @@ ("USE_T3" :> "Triple product data to use if any")
    @@ ("INIT_IMG" :> "HDUNAME of initial image")
    @@ ("MAXITER" :> "Maximum number of iterations to run")
    @@ ("RGL_NAME" :> "Name of the regularization method")
    @@ ("AUTO_WGT" :> "Automatic regularization weight")
    @@ ("RGL_WGT" :> "Weight of the regularization")
    @@ ("RGL_PRIO" :> "HDUNAME of prior image")
    @@ ("FLUX" :> "Assumed total flux")
    @@ ("FLUXERR" :> "Error bar for total flux")

-----------------------------------------------------------------------------
(* Outcomes of a call: the value returned, or the exception raised *)

Return(value) == [err |-> "none", value |-> value]
Raise(exception) == [err |-> exception, value |-> <<>>]

-----------------------------------------------------------------------------
(* Floating point.  The program computes in binary floating point with a   *)
(* 53-bit significand (np.float, Python float).  Here a number x is the    *)
(* integer x * Unit and a result keeps SigBits significant bits, rounded   *)
(* to nearest, ties to even, as IEEE 754 rounds; below SigBits bits the    *)
(* spacing stays at 1/Unit, as for subnormal numbers.  A scale in degrees  *)
(* carries a further factor 2^22, which rounding does not see.             *)

SigBits == 6
Unit == 1024

RECURSIVE BitLen(_)
BitLen(n) == IF n = 0 THEN 0 ELSE 1 + BitLen(n \div 2)

RECURSIVE Pow2(_)
Pow2(k) == IF k = 0 THEN 1 ELSE 2 * Pow2(k - 1)

\* num / den for num >= 0, den > 0, to the nearest integer, ties to even
RoundHalfEven(num, den) ==
    LET q == num \div den
        r == num % den
    IN  IF 2 * r > den \/ (2 * r = den /\ q % 2 = 1) THEN q + 1 ELSE q

\* num / den for num >= 0, den > 0, to SigBits significant bits
RoundSigPos(num, den) ==
    LET spacing == Pow2(IF BitLen(num \div den) > SigBits
                        THEN BitLen(num \div den) - SigBits ELSE 0)
    IN  spacing * RoundHalfEven(num, den * spacing)

\* num / den, den # 0, to SigBits significant bits
RoundSig(num, den) ==
    IF den < 0 THEN (IF num > 0 THEN 0 - RoundSigPos(num, 0 - den)
                     ELSE RoundSigPos(0 - num, 0 - den))
    ELSE IF num < 0 THEN 0 - RoundSigPos(0 - num, den)
    ELSE RoundSigPos(num, den)

\* a + b, a * b, a / b in floating point
FAdd(a, b) == RoundSig(a + b, 1)
FMul(a, b) == RoundSig(a * b, Unit)
FDiv(a, b) == RoundSig(a * Unit, b)

\* float(n) of an integer n that the significand holds
FloatOf(n) == n * Unit

\* np.rint(x) as an integer: to the nearest integer, ties to even
Rint(x) == IF x < 0 THEN 0 - RoundHalfEven(0 - x, Unit) ELSE RoundHalfEven(x, Unit)

\* MAS_TO_DEG = 1/3600/1000 (times 2^22: 2^12/3600, then 2^10/1000)
MAS_TO_DEG == RoundSig(RoundSig(4096 * Unit, 3600) * 1024, 1000)

\* math.pi and math.log(2)
pi == RoundSig(355 * Unit, 113)
log2 == RoundSig(693147 * Unit, 1000000)

-----------------------------------------------------------------------------
(* GreyImg.  A canvas is [name, naxis1, naxis2, cdelt, ctype, image]: the  *)
(* attributes of the object, the cdelt and ctype attributes of its WCS and *)
(* the pixel grid, a sequence of rows (slow axis) of pixels (fast axis).   *)

NoneImg == [none |-> TRUE]

NumVal(n) == [t |-> "float", s |-> "", n |-> n]

\* pixelsize * MAS_TO_DEG and cdelt / MAS_TO_DEG
MasToDeg(mas) == FMul(mas, MAS_TO_DEG)
DegToMas(cdelt) == FDiv(cdelt, MAS_TO_DEG)

\* np.zeros((naxis2, naxis1)): rows are the slow axis
Zeros(naxis2, naxis1) == [iy \in 1..naxis2 |-> [ix \in 1..naxis1 |-> 0]]

\* data.shape
Shape(data) == <<Len(data), IF data = <<>> THEN 0 ELSE Len(data[1])>>

\* wcs.WCS(header=wcsheader, naxis=2).wcs.ctype
CtypeOf(wcsheader) ==
    IF wcsheader # <<>> /\ HasKey(wcsheader[1], "CTYPE1") /\ HasKey(wcsheader[1], "CTYPE2")
    THEN <<GetValue(wcsheader[1], "CTYPE1").s, GetValue(wcsheader[1], "CTYPE2").s>>
    ELSE <<"", "">>

\* A constructor that takes the scales from the header when one is given.
GreyImgInitHeaderScale(name, naxis1, naxis2, mas, wcsheader) ==
    IF wcsheader # <<>> /\ ~HasKey(wcsheader[1], "CDELT1") THEN Raise("KeyError")
    ELSE IF wcsheader # <<>> /\ GetValue(wcsheader[1], "CDELT1").n # MasToDeg(mas)
    THEN Raise("ValueError")
    ELSE Return([name |-> name, naxis1 |-> naxis1, naxis2 |-> naxis2,
                 cdelt |-> IF wcsheader # <<>> /\ HasKey(wcsheader[1], "CDELT2")
                           THEN <<GetValue(wcsheader[1], "CDELT1").n,
                                  GetValue(wcsheader[1], "CDELT2").n>>
                           ELSE <<MasToDeg(mas), MasToDeg(mas)>>,
                 ctype |-> CtypeOf(wcsheader),
                 image |-> Zeros(naxis2, naxis1)])

\* A constructor that makes the grid naxis1 rows of naxis2 pixels.
GreyImgInitTransposed(name, naxis1, naxis2, mas, wcsheader) ==
    IF wcsheader # <<>> /\ ~HasKey(wcsheader[1], "CDELT1") THEN Raise("KeyError")
    ELSE IF wcsheader # <<>> /\ GetValue(wcsheader[1], "CDELT1").n # MasToDeg(mas)
    THEN Raise("ValueError")
    ELSE Return([name |-> name, naxis1 |-> naxis1, naxis2 |-> naxis2,
                 cdelt |-> <<MasToDeg(mas), MasToDeg(mas)>>,
                 ctype |-> CtypeOf(wcsheader),
                 image |-> Zeros(naxis1, naxis2)])

\* GreyImg.__init__ (wcsheader: <<>> for None, <<header>> otherwise)
GreyImgInit(name, naxis1, naxis2, mas, wcsheader) ==
    IF wcsheader # <<>> /\ ~HasKey(wcsheader[1], "CDELT1") THEN Raise("KeyError")
    ELSE IF wcsheader # <<>> /\ GetValue(wcsheader[1], "CDELT1").n # MasToDeg(mas)
    THEN Raise("ValueError")
    ELSE Return([name |-> name, naxis1 |-> naxis1, naxis2 |-> naxis2,
                 cdelt |-> <<MasToDeg(mas), MasToDeg(mas)>>,
                 ctype |-> CtypeOf(wcsheader),
                 image |-> Zeros(naxis2, naxis1)])

\* An image setter that takes any grid.
SetImageAnyShape(img, data) == Return([img EXCEPT !.image = data])

\* GreyImg.image setter
SetImage(img, data) ==
    IF Shape(data) # Shape(img.image) THEN Raise("ValueError")
    ELSE Return([img EXCEPT !.image = data])

\* GreyImg.setwcs(key=value), for the attributes ctype and cdelt
setwcs(img, key, value) ==
    IF key = "cdelt" THEN [img EXCEPT !.cdelt = value]
    ELSE [img EXCEPT !.ctype = value]

\* GreyImg.pixelsize
pixelsize(img) ==
    IF img.cdelt[1] # img.cdelt[2] THEN Raise("AssertionError")
    ELSE Return(DegToMas(img.cdelt[1]))

\* self._wcs.to_header(): the scale cards, and the axis types that are set
WcsToHeader(img) ==
    <<Card("CDELT1", NumVal(img.cdelt[1]), ""), Card("CDELT2", NumVal(img.cdelt[2]), "")>>
    \o (IF img.ctype # <<"", "">>
        THEN <<Card("CTYPE1", StrVal(img.ctype[1]), ""),
               Card("CTYPE2", StrVal(img.ctype[2]), "")>>
        ELSE <<>>)

\* The cards fits.PrimaryHDU and fits.ImageHDU put before the header given
PrimaryCards(data) ==
    IF data = <<>>
    THEN <<Card("SIMPLE", BoolVal(TRUE), ""), Card("BITPIX", IntVal(8), ""),
           Card("NAXIS", IntVal(0), "")>>
    ELSE <<Card("SIMPLE", BoolVal(TRUE), ""), Card("BITPIX", IntVal(-64), ""),
           Card("NAXIS", IntVal(2), ""), Card("NAXIS1", IntVal(Shape(data)[2]), ""),
           Card("NAXIS2", IntVal(Shape(data)[1]), "")>>

ImageCards(data) ==
    <<Card("XTENSION", StrVal("IMAGE"), ""), Card("BITPIX", IntVal(-64), ""),
      Card("NAXIS", IntVal(2), ""), Card("NAXIS1", IntVal(Shape(data)[2]), ""),
      Card("NAXIS2", IntVal(Shape(data)[1]), ""), Card("PCOUNT", IntVal(0), ""),
      Card("GCOUNT", IntVal(1), "")>>

\* GreyImg.make_primary_hdu
make_primary_hdu(img) ==
    HDU("primary",
        SetValue(PrimaryCards(img.image) \o WcsToHeader(img), "HDUNAME", StrVal(img.name)),
        img.image)

\* GreyImg.make_image_hdu
make_image_hdu(img) ==
    HDU("image",
        SetValue(SetValue(ImageCards(img.image) \o WcsToHeader(img),
                          "HDUNAME", StrVal(img.name)),
                 "EXTNAME", StrVal(img.name)),
        img.image)

\* A reader that reports a missing scale as a bad value, not a missing key.
fromimagehduScaleValueError(imghdu) ==
    IF ~HasKey(imghdu.header, "HDUNAME") THEN Raise("KeyError")
    ELSE IF imghdu.data = <<>> THEN Raise("AttributeError")
    ELSE IF ~HasKey(imghdu.header, "CDELT1") \/ ~HasKey(imghdu.header, "CDELT2")
         THEN Raise("ValueError")
    ELSE LET cdelt1 == GetValue(imghdu.header, "CDELT1").n
             cdelt2 == GetValue(imghdu.header, "CDELT2").n
         IN  IF cdelt1 # cdelt2 THEN Raise("ValueError")
             ELSE LET made == GreyImgInit(GetValue(imghdu.header, "HDUNAME").s,
                                          Shape(imghdu.data)[2], Shape(imghdu.data)[1],
                                          DegToMas(cdelt1), <<imghdu.header>>)
                  IN  IF made.err # "none" THEN made
                      ELSE SetImage(made.value, imghdu.data)

\* GreyImg._fromimagehdu
fromimagehdu(imghdu) ==
    IF ~HasKey(imghdu.header, "HDUNAME") THEN Raise("KeyError")
    ELSE IF imghdu.data = <<>> THEN Raise("AttributeError")
    ELSE IF ~HasKey(imghdu.header, "CDELT1") \/ ~HasKey(imghdu.header, "CDELT2")
         THEN Raise("KeyError")
    ELSE LET cdelt1 == GetValue(imghdu.header, "CDELT1").n
             cdelt2 == GetValue(imghdu.header, "CDELT2").n
         IN  IF cdelt1 # cdelt2 THEN Raise("ValueError")
             ELSE LET made == GreyImgInit(GetValue(imghdu.header, "HDUNAME").s,
                                          Shape(imghdu.data)[2], Shape(imghdu.data)[1],
                                          DegToMas(cdelt1), <<imghdu.header>>)
                  IN  IF made.err # "none" THEN made
                      ELSE SetImage(made.value, imghdu.data)

\* np.sum(image), in memory order: row by row
RECURSIVE SumSeq(_, _)
SumSeq(row, total) ==
    IF row = <<>> THEN total ELSE SumSeq(Tail(row), FAdd(total, Head(row)))

RECURSIVE SumRows(_, _)
SumRows(rows, total) ==
    IF rows = <<>> THEN total ELSE SumRows(Tail(rows), SumSeq(Head(rows), total))

ImageSum(image) == SumRows(image, 0)

\* A normalise that divides by the largest pixel.
RECURSIVE MaxSeq(_, _)
MaxSeq(row, most) ==
    IF row = <<>> THEN most
    ELSE MaxSeq(Tail(row), IF Head(row) > most THEN Head(row) ELSE most)

RECURSIVE MaxRows(_, _)
MaxRows(rows, most) ==
    IF rows = <<>> THEN most ELSE MaxRows(Tail(rows), MaxSeq(Head(rows), most))

normaliseByPeak(img) ==
    LET most == MaxRows(img.image, 0) IN
    IF most # 0
    THEN Return([img EXCEPT !.image =
                    [iy \in 1..Len(img.image) |->
                        [ix \in 1..Len(img.image[iy]) |-> FDiv(img.image[iy][ix], most)]]])
    ELSE Return(img)

\* A normalise that divides whatever the total is.
normaliseUnguarded(img) ==
    LET total == ImageSum(img.image) IN
    IF total = 0 THEN Raise("ZeroDivisionError")
    ELSE Return([img EXCEPT !.image =
                    [iy \in 1..Len(img.image) |->
                        [ix \in 1..Len(img.image[iy]) |-> FDiv(img.image[iy][ix], total)]]])

\* GreyImg.normalise
normalise(img) ==
    LET total == ImageSum(img.image) IN
    IF total # 0
    THEN Return([img EXCEPT !.image =
                    [iy \in 1..Len(img.image) |->
                        [ix \in 1..Len(img.image[iy]) |-> FDiv(img.image[iy][ix], total)]]])
    ELSE Return(img)

\* An index that does not count from the end.
PyIndexFromStart(i, n) == IF 0 <= i /\ i < n THEN i + 1 ELSE 0

\* seq[i] for a Python index i into a sequence of length n: the position
\* counted from 1, or 0 where Python raises IndexError
PyIndex(i, n) ==
    IF 0 <= i /\ i < n THEN i + 1
    ELSE IF 0 - n <= i /\ i < 0 THEN n + i + 1
    ELSE 0

\* An add_dirac that takes xpos for the row and ypos for the column.
add_diracSwapped(img, xpos, ypos, flux) ==
    LET iy == PyIndex(Rint(xpos), Len(img.image)) IN
    IF iy = 0 THEN Raise("IndexError")
    ELSE LET ix == PyIndex(Rint(ypos), Len(img.image[iy])) IN
         IF ix = 0 THEN Raise("IndexError")
         ELSE Return([img EXCEPT !.image[iy][ix] = FAdd(@, flux)])

\* GreyImg.add_dirac
add_dirac(img, xpos, ypos, flux) ==
    LET iy == PyIndex(Rint(ypos), Len(img.image)) IN
    IF iy = 0 THEN Raise("IndexError")
    ELSE LET ix == PyIndex(Rint(xpos), Len(img.image[iy])) IN
         IF ix = 0 THEN Raise("IndexError")
         ELSE Return([img EXCEPT !.image[iy][ix] = FAdd(@, flux)])

\* (ix - xpos)**2 + (iy - ypos)**2, exact for positions that are multiples
\* of 1/Unit, in units of 1/Unit^2
Rsq(ix, iy, xpos, ypos) ==
    (FloatOf(ix) - xpos) * (FloatOf(ix) - xpos) + (FloatOf(iy) - ypos) * (FloatOf(iy) - ypos)

\* A disk without its boundary.
WithinRadiusOpen(ix, iy, xpos, ypos, radius) == Rsq(ix, iy, xpos, ypos) < radius * radius

\* r <= radius for r = np.sqrt(rsq): the square root is rounded correctly
\* and radius is exact, so the test is the test on the squares
WithinRadius(ix, iy, xpos, ypos, radius) == Rsq(ix, iy, xpos, ypos) <= radius * radius

\* GreyImg.add_uniform_disk
add_uniform_disk(img, xpos, ypos, flux, diameter) ==
    LET radius == FDiv(diameter, FloatOf(2))
        area == FMul(pi, FMul(radius, radius))
        inside(ix, iy) == WithinRadius(ix, iy, xpos, ypos, radius)
    IN  IF area = 0 /\ \E iy \in 0..(img.naxis2 - 1), ix \in 0..(img.naxis1 - 1) : inside(ix, iy)
        THEN Raise("ZeroDivisionError")
        ELSE Return([img EXCEPT !.image =
                        [iy \in 1..img.naxis2 |->
                            [ix \in 1..img.naxis1 |->
                                IF inside(ix - 1, iy - 1)
                                THEN FAdd(img.image[iy][ix], FDiv(flux, area))
                                ELSE img.image[iy][ix]]]])

\* exp(-4 * log(2) * rsq / fwhm**2) = 2^-(4 rsq / fwhm^2), for the positions
\* and widths at which 4 rsq / fwhm^2 is an integer
GaussWeight(rsq, fwhm) ==
    LET k == (4 * rsq) \div (fwhm * fwhm) IN
    IF k > 20 THEN 0 ELSE RoundSig(Unit, Pow2(k))

\* GreyImg.add_gaussian
add_gaussian(img, xpos, ypos, flux, fwhm) ==
    LET peak == FDiv(FMul(FMul(flux, FloatOf(4)), log2), FMul(pi, FMul(fwhm, fwhm))) IN
    Return([img EXCEPT !.image =
               [iy \in 1..img.naxis2 |->
                   [ix \in 1..img.naxis1 |->
                       FAdd(img.image[iy][ix],
                            FMul(peak, GaussWeight(Rsq(ix - 1, iy - 1, xpos, ypos), fwhm)))]]])

\* The index a parameter value makes when used as hdulist[value]
IndexOfValue(value) == IF value.t = "int" THEN IndexPos(value.n) ELSE IndexName(value.s)

\* GreyImg.frominputfilename, on the sections of the open file
frominputfilename(hdus, hdunamekey) ==
    LET p == getitem(hdus, IndexName(INPUT_PARAM_NAME)) IN
    IF p.status # "ok" THEN Raise(p.status)
    ELSE LET param == hdus[p.at].header IN
         IF ~HasKey(param, hdunamekey) THEN Raise("KeyError")
         ELSE LET at == getitem(hdus, IndexOfValue(GetValue(param, hdunamekey))) IN
              IF at.status # "ok" THEN Raise(at.status)
              ELSE IF hdus[at.at].kind \notin {"primary", "image"} THEN Raise("TypeError")
              ELSE fromimagehdu(hdus[at.at])

-----------------------------------------------------------------------------
(* ImagingFile *)

\* The cards fits.BinTableHDU puts before the header given, and their keywords
TableCards ==
    <<Card("XTENSION", StrVal("BINTABLE"), ""), Card("BITPIX", IntVal(8), ""),
      Card("NAXIS", IntVal(2), ""), Card("NAXIS1", IntVal(0), ""),
      Card("NAXIS2", IntVal(0), ""), Card("PCOUNT", IntVal(0), ""),
      Card("GCOUNT", IntVal(1), ""), Card("TFIELDS", IntVal(0), "")>>

TableKeywords == {TableCards[i].key : i \in 1..Len(TableCards)}

\* fits.BinTableHDU(header=header): a table without rows under the header
BinTableHDU(header) ==
    HDU("table", TableCards \o SelectSeq(header, LAMBDA c : c.key \notin TableKeywords), <<>>)

\* fits.PrimaryHDU(): the empty placeholder
EmptyPrimaryHDU == HDU("primary", PrimaryCards(<<>>), <<>>)

\* header.copy(True): the header without the cards of its kind of section
StripCopy(header) ==
    SelectSeq(header, LAMBDA c : c.key \notin {"SIMPLE", "BITPIX", "NAXIS", "NAXIS1",
                                               "NAXIS2", "EXTEND"})

\* name.startswith('OI_'), on the section names of the model
StartsWithOI(name) == name \in {"OI_TARGET", "OI_VIS2"}

\* A copy that leaves the coordinate cards of the primary section behind.
CopyPrimaryCardsNoWcs(header) ==
    LET kept == SelectSeq(StripCopy(header),
                          LAMBDA c : c.key \notin RESERVED_KEYWORDS
                                                  \cup {"CDELT1", "CDELT2", "CTYPE1", "CTYPE2"})
    IN  [i \in 1..Len(kept) |-> Card(kept[i].key, kept[i].value, "")]

\* for card in cards: if card[0] not in RESERVED_KEYWORDS: dataheader.append(card)
\* (cards are (keyword, value) pairs, the comment is not copied)
CopyPrimaryCards(header) ==
    LET kept == SelectSeq(StripCopy(header), LAMBDA c : c.key \notin RESERVED_KEYWORDS)
    IN  [i \in 1..Len(kept) |-> Card(kept[i].key, kept[i].value, "")]

\* for hdu in hdulist[1:]: if hdu.header['EXTNAME'].startswith('OI_'): append
RECURSIVE CopyTables(_, _)
CopyTables(hdus, tables) ==
    IF hdus = <<>> THEN Return(tables)
    ELSE IF ~HasKey(Head(hdus).header, "EXTNAME") THEN Raise("KeyError")
    ELSE CopyTables(Tail(hdus),
                    IF StartsWithOI(GetValue(Head(hdus).header, "EXTNAME").s)
                    THEN Append(tables, Head(hdus)) ELSE tables)

\* A default table with every value stored as a string.
DefaultInparamAsStrings ==
    <<Card("EXTNAME", StrVal(INPUT_PARAM_NAME), "")>>
    \o [i \in 1..Len(DEFAULT_PARAM) |->
           Card(DEFAULT_PARAM[i][1], [DEFAULT_PARAM[i][2] EXCEPT !.t = "str"], "")]

\* The input parameters of ImagingFile.__init__: EXTNAME and the defaults
DefaultInparam ==
    <<Card("EXTNAME", StrVal(INPUT_PARAM_NAME), "")>>
    \o [i \in 1..Len(DEFAULT_PARAM) |-> Card(DEFAULT_PARAM[i][1], DEFAULT_PARAM[i][2], "")]

\* ImagingFile.__init__ (datafilename: "" for None); files are the files on disk
ImagingFileInit(files, datafilename) ==
    LET new == [dataheader |-> <<>>, datatables |-> <<>>, inparam |-> DefaultInparam,
                outparam |-> <<>>, initimg |-> NoneImg, priorimg |-> NoneImg]
    IN  IF datafilename = "" THEN Return(new)
        ELSE IF files[datafilename] = <<>> THEN Raise("IOError")
        ELSE LET hdulist0 == files[datafilename]
                 tables == CopyTables(Tail(hdulist0), <<>>)
             IN  IF tables.err # "none" THEN tables
                 ELSE Return([new EXCEPT !.dataheader = CopyPrimaryCards(hdulist0[1].header),
                                         !.datatables = tables.value])

\* A setter that stores the image and leaves the input parameters alone.
SetInitimgNoReference(self, img) == [self EXCEPT !.initimg = img]

\* ImagingFile.initimg setter
SetInitimg(self, img) ==
    [self EXCEPT !.initimg = img,
                 !.inparam = SetValue(@, "INIT_IMG", StrVal(img.name))]

\* ImagingFile.priorimg setter
SetPriorimg(self, img) ==
    [self EXCEPT !.priorimg = img,
                 !.inparam = SetValue(@, "RGL_PRIO", StrVal(img.name))]

\* A fromfilename that takes the prior image for mandatory.
fromfilenameNeedsPrior(files, filename) ==
    LET made == ImagingFileInit(files, filename) IN
    IF made.err # "none" THEN made
    ELSE LET hdus == files[filename]
             inp == HDUListGetItem(hdus, IndexName(INPUT_PARAM_NAME))
         IN  IF inp.status # "ok" THEN Raise(inp.status)
             ELSE LET out == HDUListGetItem(hdus, IndexName(OUTPUT_PARAM_NAME))
                      self1 == [made.value EXCEPT
                                  !.inparam = hdus[inp.at].header,
                                  !.outparam = IF out.status = "ok"
                                               THEN <<hdus[out.at].header>> ELSE <<>>]
                      init == frominputfilename(hdus, "INIT_IMG")
                      self2 == IF init.err = "none" THEN SetInitimg(self1, init.value)
                               ELSE self1
                      prior == frominputfilename(hdus, "RGL_PRIO")
                      self3 == IF prior.err = "none" THEN SetPriorimg(self2, prior.value)
                               ELSE self2
                  IN  IF init.err \notin {"none", "KeyError"} THEN Raise(init.err)
                      ELSE IF prior.err # "none" THEN Raise(prior.err)
                      ELSE Return(self3)

\* A fromfilename that takes a reference to a section that is no image for
\* an absent image.
fromfilenameAbsorbsTypeError(files, filename) ==
    LET made == ImagingFileInit(files, filename) IN
    IF made.err # "none" THEN made
    ELSE LET hdus == files[filename]
             inp == HDUListGetItem(hdus, IndexName(INPUT_PARAM_NAME))
         IN  IF inp.status # "ok" THEN Raise(inp.status)
             ELSE LET out == HDUListGetItem(hdus, IndexName(OUTPUT_PARAM_NAME))
                      self1 == [made.value EXCEPT
                                  !.inparam = hdus[inp.at].header,
                                  !.outparam = IF out.status = "ok"
                                               THEN <<hdus[out.at].header>> ELSE <<>>]
                      init == frominputfilename(hdus, "INIT_IMG")
                      self2 == IF init.err = "none" THEN SetInitimg(self1, init.value)
                               ELSE self1
                      prior == frominputfilename(hdus, "RGL_PRIO")
                      self3 == IF prior.err = "none" THEN SetPriorimg(self2, prior.value)
                               ELSE self2
                  IN  IF init.err \notin {"none", "KeyError", "TypeError"} THEN Raise(init.err)
                      ELSE IF prior.err \notin {"none", "KeyError", "TypeError"}
                           THEN Raise(prior.err)
                      ELSE Return(self3)

\* ImagingFile.fromfilename
fromfilename(files, filename) ==
    LET made == ImagingFileInit(files, filename) IN
    IF made.err # "none" THEN made
    ELSE LET hdus == files[filename]
             inp == HDUListGetItem(hdus, IndexName(INPUT_PARAM_NAME))
         IN  IF inp.status # "ok" THEN Raise(inp.status)
             ELSE LET out == HDUListGetItem(hdus, IndexName(OUTPUT_PARAM_NAME))
                      self1 == [made.value EXCEPT
                                  !.inparam = hdus[inp.at].header,
                                  !.outparam = IF out.status = "ok"
                                               THEN <<hdus[out.at].header>> ELSE <<>>]
                      init == frominputfilename(hdus, "INIT_IMG")
                      self2 == IF init.err = "none" THEN SetInitimg(self1, init.value)
                               ELSE self1
                      prior == frominputfilename(hdus, "RGL_PRIO")
                      self3 == IF prior.err = "none" THEN SetPriorimg(self2, prior.value)
                               ELSE self2
                  IN  IF init.err \notin {"none", "KeyError"} THEN Raise(init.err)
                      ELSE IF prior.err \notin {"none", "KeyError"} THEN Raise(prior.err)
                      ELSE Return(self3)

\* A pass that gives every key of the table its default comment, whatever
\* comment it has.
RECURSIVE SetParamCommentsOverwrite(_, _)
SetParamCommentsOverwrite(inparam, i) ==
    IF i > Len(inparam) THEN inparam
    ELSE LET key == inparam[i].key IN
         IF key \in DOMAIN PARAM_COMMENTS
         THEN SetParamCommentsOverwrite(
                  [inparam EXCEPT ![FirstIndex(inparam, key)].comment = PARAM_COMMENTS[key]],
                  i + 1)
         ELSE SetParamCommentsOverwrite(inparam, i + 1)

\* ImagingFile._set_param_comments
RECURSIVE SetParamCommentsFrom(_, _)
SetParamCommentsFrom(inparam, i) ==
    IF i > Len(inparam) THEN inparam
    ELSE LET key == inparam[i].key IN
         IF GetComment(inparam, key) = "" /\ key \in DOMAIN PARAM_COMMENTS
         THEN SetParamCommentsFrom(
                  [inparam EXCEPT ![FirstIndex(inparam, key)].comment = PARAM_COMMENTS[key]],
                  i + 1)
         ELSE SetParamCommentsFrom(inparam, i + 1)

set_param_comments(self) == [self EXCEPT !.inparam = SetParamCommentsFrom(@, 1)]

\* A listing of every key of the header.
ListedAllKeys(header) ==
    [i \in 1..Len(header) |-> <<header[i].key, GetValue(header, header[i].key)>>]

\* for key in header: if key not in RESERVED_KEYWORDS: "%-8s = %s\n" % (key, header[key])
\* (a line is the key and the value printed)
Listed(header) ==
    LET shown == SelectSeq(header, LAMBDA c : c.key \notin RESERVED_KEYWORDS)
    IN  [i \in 1..Len(shown) |-> <<shown[i].key, GetValue(header, shown[i].key)>>]

\* ImagingFile.__str__: the lines under each of the two titles; no second
\* title when outparam is None
ImagingFileStr(self) ==
    [inparam |-> <<Listed(self.inparam)>>,
     outparam |-> IF self.outparam # <<>> THEN <<Listed(self.outparam[1])>> ELSE <<>>]

\* An assembly that appends the parameter tables before the data tables.
SectionsAfterPrimaryParamsFirst(self) ==
    (IF self.priorimg # NoneImg THEN <<make_image_hdu(self.priorimg)>> ELSE <<>>)
    \o <<BinTableHDU(self.inparam)>>
    \o (IF self.outparam # <<>> THEN <<BinTableHDU(self.outparam[1])>> ELSE <<>>)
    \o self.datatables

\* The sections writeto assembles after the primary one
SectionsAfterPrimary(self) ==
    (IF self.priorimg # NoneImg THEN <<make_image_hdu(self.priorimg)>> ELSE <<>>)
    \o self.datatables
    \o <<BinTableHDU(self.inparam)>>
    \o (IF self.outparam # <<>> THEN <<BinTableHDU(self.outparam[1])>> ELSE <<>>)

\* The primary section writeto starts from
PrimaryOf(self) ==
    IF self.initimg # NoneImg THEN make_primary_hdu(self.initimg) ELSE EmptyPrimaryHDU

\* A writeto that replaces an existing file whatever overwrite says.
writetoClobber(self, files, filename, overwrite) ==
    LET self1 == set_param_comments(self)
        primary == PrimaryOf(self1)
        header == mergeheaders(<<primary.header, self1.dataheader>>)
    IN  IF ~header.ok
        THEN [err |-> "ValueError", self |-> self1, files |-> files]
        ELSE [err |-> "none", self |-> self1,
              files |-> [files EXCEPT ![filename] =
                            <<[primary EXCEPT !.header = header.hdr]>>
                            \o SectionsAfterPrimary(self1)]]

\* A writeto that writes the sections as it assembles them, the primary one
\* first, and merges the headers afterwards.
writetoMergeLate(self, files, filename, overwrite) ==
    LET self1 == set_param_comments(self)
        primary == PrimaryOf(self1)
        header == mergeheaders(<<primary.header, self1.dataheader>>)
    IN  IF files[filename] # <<>> /\ ~overwrite
        THEN [err |-> "OSError", self |-> self1, files |-> files]
        ELSE IF ~header.ok
        THEN [err |-> "ValueError", self |-> self1,
              files |-> [files EXCEPT ![filename] = <<primary>>]]
        ELSE [err |-> "none", self |-> self1,
              files |-> [files EXCEPT ![filename] =
                            <<[primary EXCEPT !.header = header.hdr]>>
                            \o SectionsAfterPrimary(self1)]]

\* ImagingFile.writeto: the exception raised, the object and the files afterwards
writeto(self, files, filename, overwrite) ==
    LET self1 == set_param_comments(self)
        primary == PrimaryOf(self1)
        header == mergeheaders(<<primary.header, self1.dataheader>>)
    IN  IF ~header.ok
        THEN [err |-> "ValueError", self |-> self1, files |-> files]
        ELSE IF files[filename] # <<>> /\ ~overwrite
        THEN [err |-> "OSError", self |-> self1, files |-> files]
        ELSE [err |-> "none", self |-> self1,
              files |-> [files EXCEPT ![filename] =
                            <<[primary EXCEPT !.header = header.hdr]>>
                            \o SectionsAfterPrimary(self1)]]

-----------------------------------------------------------------------------
(* Specification of ImagingFile: one object in hand, created, read, edited *)
(* and written as imageoi.tool does, over a few files.                     *)

MaxSteps == 5

DataPath == "data.fits"
OutputPath == "output.fits"
InputPath == "input.fits"
StalePath == "stale.fits"
Paths == {DataPath, OutputPath, InputPath, StalePath}
WritePaths == {InputPath}

\* An OIFITS file: an empty primary section and tables, one of them not OI_
DataFile ==
    <<HDU("primary",
          PrimaryCards(<<>>) \o <<Card("TELESCOP", StrVal("CHARA"), "name of array"),
                                  Card("HISTORY", StrVal("written by oifits"), "")>>,
          <<>>),
      BinTableHDU(<<Card("EXTNAME", StrVal("OI_TARGET"), "")>>),
      BinTableHDU(<<Card("EXTNAME", StrVal("AUX_DATA"), "")>>),
      BinTableHDU(<<Card("EXTNAME", StrVal("OI_VIS2"), "")>>)>>

\* The output file of a reconstruction program: the final image in the
\* primary section with the axis types imageoi.tool create sets, the data
\* tables, the input and the output parameters
OutputFile ==
    <<HDU("primary",
          SetValue(PrimaryCards(<<<<Unit>>>>)
                   \o <<Card("CDELT1", NumVal(MasToDeg(Unit \div 4)), ""),
                        Card("CDELT2", NumVal(MasToDeg(Unit \div 4)), ""),
                        Card("CTYPE1", StrVal("RA"), ""), Card("CTYPE2", StrVal("DEC"), "")>>,
                   "HDUNAME", StrVal(INIT_IMG_NAME)),
          <<<<Unit>>>>),
      BinTableHDU(<<Card("EXTNAME", StrVal("OI_TARGET"), "")>>),
      BinTableHDU(<<Card("EXTNAME", StrVal("OI_VIS2"), "")>>),
      BinTableHDU(SetValue(DefaultInparam, "INIT_IMG", StrVal(INIT_IMG_NAME))),
      BinTableHDU(<<Card("EXTNAME", StrVal(OUTPUT_PARAM_NAME), ""),
                    Card("LAST_IMG", StrVal(INIT_IMG_NAME), ""),
                    Card("NITER", IntVal(10), "")>>)>>

\* An input file whose images were taken out: the references to them stay in
\* the input parameters, to no section of the file
StaleFile ==
    <<HDU("primary", PrimaryCards(<<>>), <<>>),
      BinTableHDU(<<Card("EXTNAME", StrVal("OI_TARGET"), "")>>),
      BinTableHDU(SetValue(SetValue(DefaultInparam, "INIT_IMG", StrVal(INIT_IMG_NAME)),
                           "RGL_PRIO", StrVal(PRIOR_IMG_NAME)))>>

ModelNames == {INIT_IMG_NAME, PRIOR_IMG_NAME}
\* (pixelsize, pixel data) of the images made
ModelScaledGrids ==
    {<<Unit \div 4, <<<<0>>>>>>, <<Unit \div 4, <<<<Unit>>>>>>, <<Unit \div 2, <<<<0, Unit>>>>>>}

\* The images a caller makes: GreyImg(name, naxis1, naxis2, pixelsize) with
\* image = data
ModelImages ==
    {SetImage(GreyImgInit(name, Shape(g[2])[2], Shape(g[2])[1], g[1], <<>>).value,
              g[2]).value :
        name \in ModelNames, g \in ModelScaledGrids}

EditKeys == {"MAXITER"}
EditValues == {IntVal(50)}

Op(name, path, overwrite) == [op |-> name, path |-> path, overwrite |-> overwrite]

Init ==
    /\ fs = (DataPath :> DataFile) @@ (OutputPath :> OutputFile) @@ (InputPath :> <<>>)
            @@ (StalePath :> StaleFile)
    /\ obj = NotRun
    /\ err = "none"
    /\ writer = [p \in Paths |-> <<>>]
    /\ lastop = NotRun
    /\ steps = 0
    /\ IdleMerge /\ IdleLookup /\ IdleImg

\* inp = ImagingFile() or ImagingFile(datafilename)
Construct(datafilename) ==
    /\ steps < MaxSteps
    /\ LET made == ImagingFileInit(fs, datafilename) IN
       /\ err' = made.err
       /\ obj' = IF made.err = "none" THEN made.value ELSE obj
    /\ lastop' = Op("init", datafilename, FALSE)
    /\ steps' = steps + 1
    /\ UNCHANGED <<fs, writer, mergeVars, lookupVars, imgVars>>

\* inp = ImagingFile.fromfilename(filename)
FromFilename(filename) ==
    /\ steps < MaxSteps
    /\ LET made == fromfilename(fs, filename) IN
       /\ err' = made.err
       /\ obj' = IF made.err = "none" THEN made.value ELSE obj
    /\ lastop' = Op("fromfilename", filename, FALSE)
    /\ steps' = steps + 1
    /\ UNCHANGED <<fs, writer, mergeVars, lookupVars, imgVars>>

\* inp.initimg = img
AssignInitimg(img) ==
    /\ steps < MaxSteps
    /\ obj # NotRun
    /\ obj' = SetInitimg(obj, img)
    /\ err' = "none"
    /\ lastop' = Op("initimg", "", FALSE)
    /\ steps' = steps + 1
    /\ UNCHANGED <<fs, writer, mergeVars, lookupVars, imgVars>>

\* inp.priorimg = img
AssignPriorimg(img) ==
    /\ steps < MaxSteps
    /\ obj # NotRun
    /\ obj' = SetPriorimg(obj, img)
    /\ err' = "none"
    /\ lastop' = Op("priorimg", "", FALSE)
    /\ steps' = steps + 1
    /\ UNCHANGED <<fs, writer, mergeVars, lookupVars, imgVars>>

\* inp.inparam[key] = value
EditParam(key, value) ==
    /\ steps < MaxSteps
    /\ obj # NotRun
    /\ obj' = [obj EXCEPT !.inparam = SetValue(@, key, value)]
    /\ err' = "none"
    /\ lastop' = Op("edit", "", FALSE)
    /\ steps' = steps + 1
    /\ UNCHANGED <<fs, writer, mergeVars, lookupVars, imgVars>>

\* inp.writeto(filename, overwrite)
Writeto(filename, overwrite) ==
    /\ steps < MaxSteps
    /\ obj # NotRun
    /\ LET done == writeto(obj, fs, filename, overwrite) IN
       /\ err' = done.err
       /\ obj' = done.self
       /\ fs' = done.files
       /\ writer' = IF done.err = "none" THEN [writer EXCEPT ![filename] = <<done.self>>]
                    ELSE writer
    /\ lastop' = Op("writeto", filename, overwrite)
    /\ steps' = steps + 1
    /\ UNCHANGED <<mergeVars, lookupVars, imgVars>>

Next ==
    \/ \E datafilename \in {"", DataPath} : Construct(datafilename)
    \/ \E filename \in Paths : FromFilename(filename)
    \/ \E img \in ModelImages : AssignInitimg(img)
    \/ \E img \in ModelImages : AssignPriorimg(img)
    \/ \E key \in EditKeys, value \in EditValues : EditParam(key, value)
    \/ \E filename \in WritePaths, overwrite \in BOOLEAN : Writeto(filename, overwrite)

Spec == Init /\ [][Next]_vars

-----------------------------------------------------------------------------
(* Properties of ImagingFile *)

\* The image G read back is the image F wrote: both None, or the same name,
\* dimensions and pixel data
SameImage(F, G) ==
    IF F = NoneImg THEN G = NoneImg
    ELSE /\ G # NoneImg
         /\ G.name = F.name
         /\ G.naxis1 = F.naxis1 /\ G.naxis2 = F.naxis2
         /\ G.image = F.image

SameParams(F, G) ==
    \A i \in 1..Len(F) : HasKey(G, F[i].key) /\ GetValue(G, F[i].key) = GetValue(F, F[i].key)

TableNames(tables) ==
    [i \in 1..Len(tables) |-> GetValue(tables[i].header, "EXTNAME")]

\* The object read by the last operation, and the object that wrote the file read
JustRead == lastop # NotRun /\ lastop.op = "fromfilename" /\ err = "none"
WroteIt == writer[lastop.path][1]

\* C1: round trip. For any ImagingFile F, F.writeto(f) followed by
\* G = ImagingFile.fromfilename(f) gives a G with the value of every key of
\* F.inparam, with initimg and priorimg of the same name, dimensions and pixel
\* data as F's (None where F's are None), and with the same number of data
\* tables in the same order.
C1_RoundTrip ==
    (JustRead /\ writer[lastop.path] # <<>>) =>
        /\ SameParams(WroteIt.inparam, obj.inparam)
        /\ SameImage(WroteIt.initimg, obj.initimg)
        /\ SameImage(WroteIt.priorimg, obj.priorimg)
        /\ Len(obj.datatables) = Len(WroteIt.datatables)
        /\ TableNames(obj.datatables) = TableNames(WroteIt.datatables)


\* C1 case: a file written with both images, data tables and output
\* parameters was read back
C1_Reached ==
    /\ JustRead /\ writer[lastop.path] # <<>>
    /\ WroteIt.initimg # NoneImg /\ WroteIt.priorimg # NoneImg
    /\ WroteIt.datatables # <<>> /\ WroteIt.outparam # <<>>

\* C2: whenever initimg is not None, inparam['INIT_IMG'] is initimg.name, and
\* whenever priorimg is not None, inparam['RGL_PRIO'] is priorimg.name, after
\* any sequence of construction, fromfilename, image assignments and writeto.
C2_ReferenceKeys ==
    obj # NotRun =>
        /\ obj.initimg # NoneImg =>
              /\ HasKey(obj.inparam, "INIT_IMG")
              /\ GetValue(obj.inparam, "INIT_IMG") = StrVal(obj.initimg.name)
        /\ obj.priorimg # NoneImg =>
              /\ HasKey(obj.inparam, "RGL_PRIO")
              /\ GetValue(obj.inparam, "RGL_PRIO") = StrVal(obj.priorimg.name)

\* C2 witness: both images assigned, the prior one under the name the initial
\* image was read with from a file
C2_Witness ==
    /\ obj # NotRun /\ lastop.op = "priorimg"
    /\ obj.initimg # NoneImg /\ obj.priorimg # NoneImg
    /\ obj.outparam # <<>>
    /\ obj.initimg.name # obj.priorimg.name

WrittenFiles == {p \in Paths : writer[p] # <<>>}

\* C3: writeto assembles the primary section (the initial image if set, else
\* an empty placeholder), the prior image if and only if set, every data table
\* in list order, the input parameters, and the output parameters if and only
\* if set: 1 + [priorimg set] + len(datatables) + 1 + [outparam set] sections.
C3_SectionOrder ==
    \A p \in WrittenFiles :
        LET W == writer[p][1]
            file == fs[p]
            hp == IF W.priorimg # NoneImg THEN 1 ELSE 0
            ho == IF W.outparam # <<>> THEN 1 ELSE 0
            n == Len(W.datatables)
        IN  /\ Len(file) = 1 + hp + n + 1 + ho
            /\ file[1].kind = "primary"
            /\ file[1].data = (IF W.initimg # NoneImg THEN W.initimg.image ELSE <<>>)
            /\ W.initimg # NoneImg =>
                  GetValue(file[1].header, "HDUNAME") = StrVal(W.initimg.name)
            /\ W.initimg = NoneImg => ~HasKey(file[1].header, "HDUNAME")
            /\ hp = 1 =>
                  /\ file[2].kind = "image"
                  /\ file[2].data = W.priorimg.image
                  /\ GetValue(file[2].header, "HDUNAME") = StrVal(W.priorimg.name)
            /\ \A i \in 2..Len(file) : file[i].kind = "image" => (hp = 1 /\ i = 2)
            /\ \A i \in 1..n : file[1 + hp + i] = W.datatables[i]
            /\ file[2 + hp + n].kind = "table"
            /\ GetValue(file[2 + hp + n].header, "EXTNAME") = StrVal(INPUT_PARAM_NAME)
            /\ ho = 1 =>
                  /\ file[3 + hp + n].kind = "table"
                  /\ GetValue(file[3 + hp + n].header, "EXTNAME") = StrVal(OUTPUT_PARAM_NAME)
            /\ \A i \in 1..Len(file) :
                  (/\ HasKey(file[i].header, "EXTNAME")
                   /\ GetValue(file[i].header, "EXTNAME") = StrVal(OUTPUT_PARAM_NAME))
                      => (ho = 1 /\ i = Len(file))

\* C3 witness: a file written with prior image, data tables and output
\* parameters, of 6 sections
C3_Witness ==
    \E p \in WrittenFiles :
        /\ writer[p][1].priorimg # NoneImg /\ writer[p][1].outparam # <<>>
        /\ Len(writer[p][1].datatables) = 2
        /\ Len(fs[p]) = 6

IsWrite == lastop'.op = "writeto" /\ steps' = steps + 1

\* C4: writeto(filename, overwrite=False) on a path that exists fails with an
\* error and leaves the file as it was; no file is written.
C4_ExistingFileKept ==
    [][(IsWrite /\ ~lastop'.overwrite /\ fs[lastop'.path] # <<>>)
          => (err' # "none" /\ fs' = fs)]_vars

\* C4 witness: a write without overwrite refused for a file that exists
C4_Witness ==
    /\ lastop # NotRun /\ lastop.op = "writeto" /\ ~lastop.overwrite
    /\ err = "OSError" /\ fs[lastop.path] # <<>>

\* The primary header and the descriptive header hold a keyword with
\* differing values
MergeConflict(self) ==
    LET both == <<PrimaryOf(self).header, self.dataheader>> IN
    \E i \in 1..Len(self.dataheader) :
        /\ self.dataheader[i].key \notin COMMENTARY
        /\ Conflicting(both, self.dataheader[i].key)

\* C5: when merging the primary header with the descriptive dataheader
\* conflicts, the whole write is aborted: no file is created at the target
\* path, and a file that exists there (also with overwrite=True) stays as it was.
C5_ConflictAborts ==
    [][(IsWrite /\ MergeConflict(obj)) => (err' = "ValueError" /\ fs' = fs)]_vars

\* C5 witness: a write with overwrite over an existing file aborted by a conflict
C5_Witness ==
    /\ lastop # NotRun /\ lastop.op = "writeto" /\ lastop.overwrite
    /\ err = "ValueError" /\ fs[lastop.path] # <<>>
    /\ MergeConflict(obj)

\* The keys on the lines of a listing
KeysShown(lines) == {lines[i][1] : i \in 1..Len(lines)}

\* C23: reserved structural keys (XTENSION, BITPIX, NAXIS, NAXIS1, NAXIS2,
\* PCOUNT, GCOUNT, TFIELDS, EXTNAME, EXTVER, HDUNAME, HDUVER) are never
\* treated as domain parameters: after any sequence of operations including
\* fromfilename and parameter edits, the descriptive dataheader contains none
\* of them and the parameter listing produced by str(ImagingFile) shows none
\* of them for the input or the output parameters.
C23_ReservedKeys ==
    obj # NotRun =>
        /\ \A i \in 1..Len(obj.dataheader) : obj.dataheader[i].key \notin RESERVED_KEYWORDS
        /\ \A part \in {"inparam", "outparam"} :
              \A i \in 1..Len(ImagingFileStr(obj)[part]) :
                 KeysShown(ImagingFileStr(obj)[part][i]) \cap RESERVED_KEYWORDS = {}
        /\ KeysShown(ImagingFileStr(obj).inparam[1]) =
              {obj.inparam[i].key : i \in 1..Len(obj.inparam)} \ RESERVED_KEYWORDS

\* C23 witness: the object was read from a file whose primary section has
\* an HDUNAME and whose tables have their structural cards; it holds a
\* dataheader and output parameters, and was edited
C23_Witness ==
    /\ obj # NotRun /\ lastop.op = "edit"
    /\ obj.dataheader # <<>> /\ obj.outparam # <<>>
    /\ HasKey(obj.inparam, "TFIELDS") /\ HasKey(obj.outparam[1], "TFIELDS")
    /\ HasKey(obj.outparam[1], "EXTNAME")
    /\ Len(ImagingFileStr(obj).outparam[1]) = 2
    /\ \E p \in Paths : /\ fs[p] # <<>> /\ HasKey(fs[p][1].header, "HDUNAME")
                         /\ CopyPrimaryCards(fs[p][1].header) = obj.dataheader

\* The type of every default parameter, as tests/test_imagingfile.py has it
DefaultTypes ==
    [TARGET |-> "none", WAVE_MIN |-> "float", WAVE_MAX |-> "float", USE_VIS |-> "str",
     USE_VIS2 |-> "bool", USE_T3 |-> "str", MAXITER |-> "int", RGL_NAME |-> "str",
     AUTO_WGT |-> "bool", RGL_WGT |-> "float", FLUX |-> "float", FLUXERR |-> "float"]

UseChoices == {"NONE", "ALL", "AMP", "PHI"}

\* The object in hand was made by ImagingFile()
MadeWithoutData == lastop # NotRun /\ lastop = Op("init", "", FALSE) /\ err = "none"

\* C19: an ImagingFile created without a data file holds every key of the
\* default parameter table with its default value and type, has EXTNAME equal
\* to the input-parameters section name, has neither an INIT_IMG nor an
\* RGL_PRIO key, has initimg, priorimg and outparam None, and has no data
\* tables.
C19_Defaults ==
    MadeWithoutData =>
        /\ DOMAIN DefaultTypes = {DEFAULT_PARAM[i][1] : i \in 1..Len(DEFAULT_PARAM)}
        /\ \A i \in 1..Len(DEFAULT_PARAM) :
              /\ HasKey(obj.inparam, DEFAULT_PARAM[i][1])
              /\ GetValue(obj.inparam, DEFAULT_PARAM[i][1]) = DEFAULT_PARAM[i][2]
              /\ GetValue(obj.inparam, DEFAULT_PARAM[i][1]).t = DefaultTypes[DEFAULT_PARAM[i][1]]
        /\ GetValue(obj.inparam, "USE_VIS").s \in UseChoices
        /\ GetValue(obj.inparam, "USE_T3").s \in UseChoices
        /\ HasKey(obj.inparam, "EXTNAME")
        /\ GetValue(obj.inparam, "EXTNAME") = StrVal(INPUT_PARAM_NAME)
        /\ ~HasKey(obj.inparam, "INIT_IMG") /\ ~HasKey(obj.inparam, "RGL_PRIO")
        /\ obj.initimg = NoneImg /\ obj.priorimg = NoneImg /\ obj.outparam = <<>>
        /\ obj.datatables = <<>>

\* C19 witness: ImagingFile() was called when files had been read and
\* written, and the object holds the twelve defaults
C19_Witness ==
    /\ MadeWithoutData /\ steps > 2 /\ fs[InputPath] # <<>>
    /\ Len(obj.inparam) = 13
    /\ GetValue(obj.inparam, "MAXITER") = IntVal(200)

\* The call just made was fromfilename
DidRead == lastop'.op = "fromfilename" /\ steps' = steps + 1

\* The sections of a file that answer to a name, by EXTNAME or by HDUNAME
SectionsNamed(file, name) ==
    {i \in 1..Len(file) :
        \/ HasKey(file[i].header, "EXTNAME") /\ GetValue(file[i].header, "EXTNAME") = name
        \/ HasKey(file[i].header, "HDUNAME") /\ GetValue(file[i].header, "HDUNAME") = name}

\* The input parameters a file holds
InparamOf(file) ==
    file[CHOOSE i \in SectionsNamed(file, StrVal(INPUT_PARAM_NAME)) : TRUE].header

\* The file holds no image for the reference key: the key is not among its
\* input parameters, or no section answers to the name it gives
NoImageFor(file, key) ==
    \/ ~HasKey(InparamOf(file), key)
    \/ SectionsNamed(file, GetValue(InparamOf(file), key)) = {}

C20_WitnessMandatory ==
    /\ lastop # NotRun /\ lastop = Op("fromfilename", DataPath, FALSE) /\ err = "KeyError"
    /\ obj # NotRun /\ obj.initimg # NoneImg

-----------------------------------------------------------------------------
(* Specification of GreyImg: one canvas is created, from arguments or from *)
(* an image section, and then drawn on, normalised, assigned and queried.  *)

MaxOps == 4

\* (naxis1, naxis2) of the canvases created
CanvasSizes == {<<2, 1>>, <<2, 2>>}

\* Pixel sizes in mas: 0.25 and 0.234375
PixelSizes == {Unit \div 4, 240}

ScaleCards(cdelt1, cdelt2) ==
    <<Card("CDELT1", NumVal(cdelt1), ""), Card("CDELT2", NumVal(cdelt2), "")>>

\* Headers given to the constructor with pixelsize 0.25: the scale of that
\* pixelsize with axis types, a second scale that differs, another pixelsize
WcsHeaders ==
    {ScaleCards(MasToDeg(Unit \div 4), MasToDeg(Unit \div 4))
        \o <<Card("CTYPE1", StrVal("RA"), ""), Card("CTYPE2", StrVal("DEC"), "")>>,
     ScaleCards(MasToDeg(Unit \div 4), MasToDeg(Unit \div 2)),
     ScaleCards(MasToDeg(Unit \div 2), MasToDeg(Unit \div 2))}

ImageSection(cards, data) ==
    HDU("image", SetValue(ImageCards(data) \o cards, "HDUNAME", StrVal("test")), data)

\* Image sections read: one this package wrote, one with pixels that are not
\* square, one without CDELT2, one whose scale another program wrote
ImageSections ==
    {ImageSection(ScaleCards(MasToDeg(Unit \div 4), MasToDeg(Unit \div 4)), <<<<Unit, 0>>>>),
     ImageSection(ScaleCards(MasToDeg(Unit \div 4), MasToDeg(Unit \div 2)), <<<<Unit, 0>>>>),
     ImageSection(<<Card("CDELT1", NumVal(MasToDeg(Unit \div 4)), "")>>, <<<<Unit, 0>>>>),
     ImageSection(ScaleCards(384, 384), <<<<Unit, 0>>>>)}

\* Grids assigned: of one row, of one row with pixels that cancel, of two
\* rows, of two rows with pixels of both signs that nearly cancel, of one
\* pixel
AssignedGrids ==
    {<<<<Unit, 0>>>>, <<<<Unit, 0 - Unit>>>>, <<<<Unit, Unit>>, <<Unit, 48>>>>,
     <<<<16, 0 - 992>>, <<Unit, 0>>>>, <<<<Unit>>>>}

\* (xpos, ypos) of the components added: on a pixel, halfway between two,
\* on the second column, beyond the last column, one column before the first,
\* three columns before the first, on the second row, one row before the first
DiracPositions ==
    {<<0, 0>>, <<Unit \div 2, 0>>, <<Unit, 0>>, <<Unit + Unit \div 2, 0>>, <<0 - Unit, 0>>,
     <<0 - 3 * Unit, 0>>, <<Unit, Unit>>, <<0, 0 - Unit>>}
DiracFluxes == {Unit \div 2, 1056}
DiskCentres == {<<0, 0>>, <<Unit \div 2, 0>>}
DiskDiameters == {FloatOf(2), FloatOf(3)}
GaussCentres == {<<0, 0>>}
GaussWidths == {FloatOf(2)}
WcsSettings ==
    {<<"ctype", <<"RA", "DEC">>>>,
     <<"cdelt", <<MasToDeg(Unit \div 4), MasToDeg(Unit \div 2)>>>>}

Call(op, args) == [op |-> op, args |-> args]

Created(naxis1, naxis2, mas) ==
    [naxis1 |-> naxis1, naxis2 |-> naxis2, pixelsize |-> mas, fluxes |-> <<>>, diracs |-> TRUE]

InitImg ==
    /\ canvas = NotRun /\ raised = "none" /\ called = NotRun /\ history = NotRun
    /\ nops = 0
    /\ IdleMerge /\ IdleLookup /\ IdleFiles

\* The outcome of a call that makes a canvas
Make(made, op, args, hist) ==
    /\ canvas = NotRun
    /\ nops < MaxOps
    /\ raised' = made.err
    /\ canvas' = IF made.err = "none" THEN made.value ELSE canvas
    /\ history' = IF made.err = "none" THEN hist ELSE history
    /\ called' = Call(op, args)
    /\ nops' = nops + 1
    /\ UNCHANGED <<mergeVars, lookupVars, fileVars>>

\* The outcome of a method of the canvas in hand
Act(done, op, args, hist) ==
    /\ canvas # NotRun
    /\ nops < MaxOps
    /\ raised' = done.err
    /\ canvas' = IF done.err = "none" THEN done.value ELSE canvas
    /\ history' = IF done.err = "none" THEN hist ELSE history
    /\ called' = Call(op, args)
    /\ nops' = nops + 1
    /\ UNCHANGED <<mergeVars, lookupVars, fileVars>>

\* img = GreyImg('test', naxis1, naxis2, pixelsize)
Create(naxis1, naxis2, mas) ==
    Make(GreyImgInit("test", naxis1, naxis2, mas, <<>>), "init",
         <<naxis1, naxis2, mas>>, Created(naxis1, naxis2, mas))

\* img = GreyImg('test', 2, 1, 0.25, wcsheader)
CreateWithHeader(wcsheader) ==
    Make(GreyImgInit("test", 2, 1, Unit \div 4, <<wcsheader>>), "initheader",
         <<2, 1, Unit \div 4>>, Created(2, 1, Unit \div 4))

\* img = GreyImg._fromimagehdu(imghdu)
FromImageHdu(imghdu) ==
    Make(fromimagehdu(imghdu), "fromimagehdu", <<imghdu>>,
         [Created(Shape(imghdu.data)[2], Shape(imghdu.data)[1], 0) EXCEPT !.diracs = FALSE])

\* img.image = data
AssignImage(data) ==
    Act(SetImage(canvas, data), "image", <<data>>, [history EXCEPT !.diracs = FALSE])

\* img.setwcs(key=value)
SetWcs(key, value) ==
    Act(Return(setwcs(canvas, key, value)), "setwcs", <<key, value>>, history)

\* img.pixelsize
Pixelsize ==
    /\ canvas # NotRun
    /\ nops < MaxOps
    /\ raised' = pixelsize(canvas).err
    /\ called' = Call("pixelsize", <<pixelsize(canvas).value>>)
    /\ nops' = nops + 1
    /\ UNCHANGED <<canvas, history, mergeVars, lookupVars, fileVars>>

\* img.normalise()
Normalise ==
    Act(normalise(canvas), "normalise", <<ImageSum(canvas.image)>>,
        [history EXCEPT !.diracs = FALSE])

\* img.add_dirac(xpos, ypos, flux)
AddDirac(xpos, ypos, flux) ==
    Act(add_dirac(canvas, xpos, ypos, flux), "add_dirac", <<xpos, ypos, flux>>,
        [history EXCEPT !.fluxes = Append(@, flux)])

\* img.add_uniform_disk(xpos, ypos, flux, diameter)
AddUniformDisk(xpos, ypos, flux, diameter) ==
    Act(add_uniform_disk(canvas, xpos, ypos, flux, diameter), "add_uniform_disk",
        <<xpos, ypos, flux, diameter>>, [history EXCEPT !.diracs = FALSE])

\* img.add_gaussian(xpos, ypos, flux, fwhm)
AddGaussian(xpos, ypos, flux, fwhm) ==
    Act(add_gaussian(canvas, xpos, ypos, flux, fwhm), "add_gaussian",
        <<xpos, ypos, flux, fwhm>>, [history EXCEPT !.diracs = FALSE])

NextImg ==
    \/ \E size \in CanvasSizes, mas \in PixelSizes : Create(size[1], size[2], mas)
    \/ \E wcsheader \in WcsHeaders : CreateWithHeader(wcsheader)
    \/ \E imghdu \in ImageSections : FromImageHdu(imghdu)
    \/ \E data \in AssignedGrids : AssignImage(data)
    \/ \E setting \in WcsSettings : SetWcs(setting[1], setting[2])
    \/ Pixelsize
    \/ Normalise
    \/ \E at \in DiracPositions, flux \in DiracFluxes : AddDirac(at[1], at[2], flux)
    \/ \E at \in DiskCentres, diameter \in DiskDiameters :
          AddUniformDisk(at[1], at[2], Unit, diameter)
    \/ \E at \in GaussCentres, fwhm \in GaussWidths : AddGaussian(at[1], at[2], Unit, fwhm)

SpecImg == InitImg /\ [][NextImg]_vars

-----------------------------------------------------------------------------
(* Properties of GreyImg *)

\* The call just made on the canvas
Did(op) == called'.op = op /\ nops' = nops + 1

Rectangular(image) == \A iy \in 1..Len(image) : Len(image[iy]) = Len(image[1])

\* C11: the grid's shape is fixed at creation: after any sequence of image
\* assignments (accepted or rejected), add_dirac, add_uniform_disk,
\* add_gaussian and normalise calls image.shape is (naxis2, naxis1) of the
\* creation, and an assignment of data of another shape raises ValueError and
\* leaves the grid as it was.
C11_ShapeFixed ==
    [][/\ canvas' # NotRun =>
              /\ Shape(canvas'.image) = <<history'.naxis2, history'.naxis1>>
              /\ Rectangular(canvas'.image)
       /\ (Did("image") /\ Shape(called'.args[1]) # Shape(canvas.image)) =>
              (raised' = "ValueError" /\ canvas' = canvas)]_vars

\* C11 witness: after two calls that changed the grid, data of one pixel
\* was refused by a canvas of two
C11_Witness ==
    /\ canvas # NotRun /\ nops = 4
    /\ called.op = "image" /\ raised = "ValueError"
    /\ Shape(called.args[1]) = <<1, 1>> /\ Shape(canvas.image) = <<1, 2>>
    /\ canvas.image # Zeros(1, 2)

\* C12: for every GreyImg, after any sequence of public operations
\* (construction with or without a header, reading from an image section,
\* setwcs, image assignment, add_* and normalise) cdelt[0] equals cdelt[1], so
\* the assertion in the pixelsize accessor never fails; a header whose CDELT1
\* disagrees with the pixelsize argument and an image section with CDELT1
\* different from CDELT2 are rejected with ValueError.
C12_SquarePixels ==
    /\ canvas # NotRun => canvas.cdelt[1] = canvas.cdelt[2]
    /\ (called # NotRun /\ called.op = "pixelsize") => raised # "AssertionError"
    /\ (called # NotRun /\ called.op = "fromimagehdu"
        /\ HasKey(called.args[1].header, "CDELT1") /\ HasKey(called.args[1].header, "CDELT2")
        /\ GetValue(called.args[1].header, "CDELT1") # GetValue(called.args[1].header, "CDELT2"))
           => raised = "ValueError"

\* The scales of a canvas differ only after setwcs has set them apart
C12_SetwcsOnly ==
    [][(canvas' # NotRun /\ canvas'.cdelt[1] # canvas'.cdelt[2]) =>
          \/ (canvas # NotRun /\ canvas.cdelt[1] # canvas.cdelt[2])
          \/ (Did("setwcs") /\ called'.args[1] = "cdelt")]_vars

\* Sum of the magnitudes of the pixels, exact
RECURSIVE AbsSumSeq(_)
AbsSumSeq(row) ==
    IF row = <<>> THEN 0
    ELSE (IF Head(row) < 0 THEN 0 - Head(row) ELSE Head(row)) + AbsSumSeq(Tail(row))

RECURSIVE AbsSum(_)
AbsSum(image) == IF image = <<>> THEN 0 ELSE AbsSumSeq(Head(image)) + AbsSum(Tail(image))

NPixels(image) == Len(image) * Len(image[1])

Abs(x) == IF x < 0 THEN 0 - x ELSE x

\* The rounding error n operations leave on a result whose terms have the
\* magnitude given: a unit in the last place for each, a spacing at the least
RoundingOf(n, magnitude) == (2 * n * magnitude) \div Pow2(SigBits) + n

\* The tolerance on a total of 1.0: eight spacings of the numbers at 1.0,
\* above the rounding of any grid of the sizes here whose pixels have one sign
SumTolerance == Unit \div 4

\* What normalise() does to the pixels and to nothing else
NormaliseDivides ==
    /\ raised' = "none"
    /\ Shape(canvas'.image) = Shape(canvas.image)
    /\ \A iy \in 1..Len(canvas.image) : \A ix \in 1..Len(canvas.image[iy]) :
          canvas'.image[iy][ix] = FDiv(canvas.image[iy][ix], ImageSum(canvas.image))
    /\ [canvas' EXCEPT !.image = <<>>] = [canvas EXCEPT !.image = <<>>]

\* C13: normalise() on a canvas whose pixel sum is nonzero replaces every
\* pixel p by p / total, total being the sum before the call, so that the sum
\* afterwards is 1 within the fixed tolerance; the grid shape, the name and
\* the coordinate attributes are unchanged.
C13_SumWithinTolerance ==
    [][(Did("normalise") /\ ImageSum(canvas.image) # 0) =>
          /\ NormaliseDivides
          /\ Abs(ImageSum(canvas'.image) - Unit) <= SumTolerance]_vars

\* C13 as the code has it: every pixel p becomes p / total and nothing else
\* changes; the sum afterwards is 1 within the rounding of the divisions and
\* of the two summations, which grows with the magnitudes of the normalised
\* pixels and stays inside the fixed tolerance when no pixel is negative.
C13_Normalised ==
    [][(Did("normalise") /\ ImageSum(canvas.image) # 0) =>
          /\ NormaliseDivides
          /\ Abs(ImageSum(canvas'.image) - Unit)
                <= RoundingOf(2 * NPixels(canvas.image), AbsSum(canvas'.image))
          /\ (\A iy \in 1..Len(canvas.image) : \A ix \in 1..Len(canvas.image[iy]) :
                 canvas.image[iy][ix] >= 0)
                => Abs(ImageSum(canvas'.image) - Unit) <= SumTolerance]_vars

\* C13 witness: a grid with total neither 0 nor 1 was normalised, and its
\* pixels changed
C13_Witness ==
    /\ called # NotRun /\ called.op = "normalise" /\ raised = "none"
    /\ called.args[1] \notin {0, Unit}
    /\ \E iy \in 1..Len(canvas.image) : \E ix \in 1..Len(canvas.image[iy]) :
          canvas.image[iy][ix] \notin {0, Unit}
    /\ canvas.ctype # <<"", "">>

\* Applying normalise() once more to the canvas just normalised
Again == normalise(canvas').value.image

NoNegativePixel(image) ==
    \A iy \in 1..Len(image) : \A ix \in 1..Len(image[iy]) : image[iy][ix] >= 0

\* C14: normalise() on a canvas whose pixel sum is zero (an all-zero grid, or
\* nonzero pixels that cancel) leaves every pixel unchanged and raises no
\* error; consequently normalise is idempotent: applied twice it gives the
\* same grid as applied once, for zero-sum and nonzero-sum grids alike.
C14_Idempotent ==
    [][Did("normalise") =>
          /\ raised' = "none"
          /\ ImageSum(canvas.image) = 0 => canvas' = canvas
          /\ Again = canvas'.image]_vars

\* C14 as the code has it: a zero-sum grid is left as it is, without error;
\* the second application divides by the total of the first result, which is
\* 1 only within rounding: the grid is the same when that total is exactly 1
\* (or 0), and otherwise, on a grid without negative pixels, every pixel moves
\* by no more than twice the relative error of the total and one spacing.
C14_IdempotentWithinRounding ==
    [][Did("normalise") =>
          /\ raised' = "none"
          /\ ImageSum(canvas.image) = 0 => canvas' = canvas
          /\ ImageSum(canvas'.image) \in {0, Unit} => Again = canvas'.image
          /\ \A iy \in 1..Len(canvas.image) : \A ix \in 1..Len(canvas.image[iy]) :
                /\ Again[iy][ix] = IF ImageSum(canvas'.image) = 0 THEN canvas'.image[iy][ix]
                                   ELSE FDiv(canvas'.image[iy][ix], ImageSum(canvas'.image))
                /\ NoNegativePixel(canvas.image) =>
                      Abs(Again[iy][ix] - canvas'.image[iy][ix]) * Unit
                         <= 2 * canvas'.image[iy][ix] * Abs(ImageSum(canvas'.image) - Unit)
                            + RoundingOf(1, canvas'.image[iy][ix]) * Unit]_vars

\* C14 witness: normalise() was called on a grid of nonzero pixels that
\* cancel, and the grid is as it was assigned
C14_Witness ==
    /\ called # NotRun /\ called.op = "normalise" /\ called.args[1] = 0
    /\ raised = "none"
    /\ canvas.image = <<<<Unit, 0 - Unit>>>>

\* A position whose nearest pixel is a pixel of the grid
InsideGrid(image, xpos, ypos) ==
    /\ 0 <= Rint(ypos) /\ Rint(ypos) < Len(image)
    /\ 0 <= Rint(xpos) /\ Rint(xpos) < Len(image[1])

\* The sum of a sequence of numbers, exact
RECURSIVE Total(_)
Total(fluxes) == IF fluxes = <<>> THEN 0 ELSE Head(fluxes) + Total(Tail(fluxes))

\* add_dirac adds to the pixel at row round(ypos), column round(xpos), and to
\* no other
DiracOnePixel ==
    /\ raised' = "none"
    /\ Shape(canvas'.image) = Shape(canvas.image)
    /\ \A iy \in 1..Len(canvas.image) : \A ix \in 1..Len(canvas.image[iy]) :
          canvas'.image[iy][ix] =
              IF iy = Rint(called'.args[2]) + 1 /\ ix = Rint(called'.args[1]) + 1
              THEN FAdd(canvas.image[iy][ix], called'.args[3])
              ELSE canvas.image[iy][ix]
    /\ [canvas' EXCEPT !.image = <<>>] = [canvas EXCEPT !.image = <<>>]

\* C15: add_dirac(xpos, ypos, flux) with a position inside the grid adds flux
\* to exactly one pixel, the one at row round(ypos) and column round(xpos),
\* and leaves every other pixel unchanged; the grid total therefore grows by
\* exactly flux, and after any sequence of add_dirac calls on a blank canvas
\* the total equals the sum of the fluxes added, also when two calls hit the
\* same pixel.
C15_DiracExact ==
    [][(Did("add_dirac") /\ InsideGrid(canvas.image, called'.args[1], called'.args[2])) =>
          /\ DiracOnePixel
          /\ ImageSum(canvas'.image) = ImageSum(canvas.image) + called'.args[3]
          /\ history'.diracs => ImageSum(canvas'.image) = Total(history'.fluxes)]_vars

\* C15 as the code has it: one pixel takes the rounded sum of its value and
\* flux and no other pixel changes; the total grows by flux, and after
\* add_dirac calls on a blank canvas equals the sum of the fluxes, within the
\* rounding of the additions.
C15_DiracWithinRounding ==
    [][(Did("add_dirac") /\ InsideGrid(canvas.image, called'.args[1], called'.args[2])) =>
          /\ DiracOnePixel
          /\ Abs(ImageSum(canvas'.image) - (ImageSum(canvas.image) + called'.args[3]))
                <= RoundingOf(2 * NPixels(canvas.image) + 1, AbsSum(canvas'.image))
          /\ history'.diracs =>
                Abs(ImageSum(canvas'.image) - Total(history'.fluxes))
                   <= RoundingOf(NPixels(canvas.image) + Len(history'.fluxes),
                                 Total(history'.fluxes))]_vars

\* C15 witness: three add_dirac calls on a blank canvas hit the same pixel
\* and the last addition was rounded
C15_Witness ==
    /\ called # NotRun /\ called.op = "add_dirac" /\ raised = "none"
    /\ history.diracs /\ Len(history.fluxes) = 3
    /\ canvas.image[1][1] = ImageSum(canvas.image)
    /\ ImageSum(canvas.image) # Total(history.fluxes)

\* flux / (pi * radius^2) for radius = diameter / 2, as floating-point numbers
DiskAmount(flux, diameter) ==
    FDiv(flux, FMul(pi, FMul(FDiv(diameter, FloatOf(2)), FDiv(diameter, FloatOf(2)))))

Changed(before, after) ==
    {at \in (1..Len(before)) \X (1..Len(before[1])) :
        after[at[1]][at[2]] # before[at[1]][at[2]]}

\* C29: add_dirac with a position outside the grid: a rounded index i in
\* [-n, -1] (n the axis length) puts the flux on the pixel counted from the
\* opposite edge (index n + i) and raises no error; a rounded index >= n or
\* < -n raises IndexError and leaves the grid unchanged.  In no case is more
\* than one pixel changed.
C29_DiracOutside ==
    [][Did("add_dirac") =>
          LET ix == Rint(called'.args[1])
              iy == Rint(called'.args[2])
              n1 == Len(canvas.image[1])
              n2 == Len(canvas.image)
              flux == called'.args[3]
          IN  /\ Cardinality(Changed(canvas.image, canvas'.image)) <= 1
              /\ (ix >= n1 \/ ix < 0 - n1 \/ iy >= n2 \/ iy < 0 - n2) =>
                    (raised' = "IndexError" /\ canvas' = canvas)
              /\ (0 - n1 <= ix /\ ix < n1 /\ 0 - n2 <= iy /\ iy < n2) =>
                    /\ raised' = "none"
                    /\ canvas'.image[((iy + n2) % n2) + 1][((ix + n1) % n1) + 1]
                          = FAdd(canvas.image[((iy + n2) % n2) + 1][((ix + n1) % n1) + 1], flux)
                    /\ Changed(canvas.image, canvas'.image)
                          \subseteq {<<((iy + n2) % n2) + 1, ((ix + n1) % n1) + 1>>}]_vars

\* C29 witness: on a blank canvas of two columns the flux given for column
\* -1 is on the last column
C29_Witness ==
    /\ called # NotRun /\ called.op = "add_dirac" /\ raised = "none"
    /\ called.args[1] = 0 - Unit /\ nops = 2 /\ history.diracs
    /\ Len(canvas.image[1]) = 2
    /\ canvas.image[1][2] = called.args[3] /\ canvas.image[1][1] = 0

\* A call for a column before -n was refused after an earlier one had put
\* flux on the grid
C29_WitnessRefused ==
    /\ called # NotRun /\ called.op = "add_dirac" /\ raised = "IndexError"
    /\ called.args[1] = 0 - 3 * Unit
    /\ canvas.image[1][1] # 0

\* The canvas is as the constructor left it
JustCreated ==
    /\ called # NotRun /\ called.op \in {"init", "initheader"} /\ raised = "none"

\* A grid of naxis2 rows of naxis1 pixels, every one 0
BlankGrid ==
    /\ Shape(canvas.image) = <<called.args[2], called.args[1]>>
    /\ Rectangular(canvas.image)
    /\ \A iy \in 1..Len(canvas.image) : \A ix \in 1..Len(canvas.image[iy]) :
          canvas.image[iy][ix] = 0
    /\ ImageSum(canvas.image) = 0

\* C18: for all valid (naxis1, naxis2, pixelsize) a newly created GreyImg has
\* a grid of shape (naxis2, naxis1) in which every pixel is 0, hence image sum
\* 0, and reports the pixelsize it was created with.
C18_NewCanvas ==
    JustCreated => (BlankGrid /\ pixelsize(canvas) = Return(called.args[3]))

\* C18 as the code has it: the grid is blank and of shape (naxis2, naxis1);
\* the pixelsize reported is (pixelsize * MAS_TO_DEG) / MAS_TO_DEG, the value
\* of the creation within the rounding of the two operations.
C18_NewCanvasRounded ==
    JustCreated =>
        /\ BlankGrid
        /\ pixelsize(canvas) = Return(FDiv(FMul(called.args[3], MAS_TO_DEG), MAS_TO_DEG))
        /\ Abs(pixelsize(canvas).value - called.args[3]) <= RoundingOf(2, called.args[3])

\* C18 witness: a canvas of one row of two pixels was created with a
\* pixelsize that the conversion to degrees and back does not return
C18_Witness ==
    /\ JustCreated
    /\ called.args[1] = 2 /\ called.args[2] = 1
    /\ canvas.image = <<<<0, 0>>>>
    /\ pixelsize(canvas).value # called.args[3]

-----------------------------------------------------------------------------
(* One uniform disk on a blank canvas *)

MaxDiameter == 11

\* pi as a ratio of integers, for totals compared exactly
PiNum == 355
PiDen == 113

\* naxis1 = naxis2 of the canvases that take a disk
DiskCanvasSizes == {12, 16}

\* Coordinates of the disk centres, on pixels and between them
DiskCentreCoordinates == {5 * Unit + Unit \div 2, 6 * Unit, 7 * Unit + Unit \div 2, 8 * Unit}

\* img = GreyImg('test', n, n, 0.25)
CreateBlank(n) == Create(n, n, Unit \div 4)

\* img.add_uniform_disk(xpos, ypos, 1.0, diameter), the first call on the canvas
AddOneDisk(xpos, ypos, diameter) ==
    /\ nops = 1
    /\ AddUniformDisk(xpos, ypos, Unit, FloatOf(diameter))

NextDisk ==
    \/ \E n \in DiskCanvasSizes : CreateBlank(n)
    \/ \E xpos \in DiskCentreCoordinates, ypos \in DiskCentreCoordinates,
          diameter \in 1..MaxDiameter : AddOneDisk(xpos, ypos, diameter)

SpecDisk == InitImg /\ [][NextDisk]_vars

\* The pixels of a grid that hold flux
Lit(image) ==
    {at \in (1..Len(image)) \X (1..Len(image[1])) : image[at[1]][at[2]] # 0}

\* The disk lies within the grid: no pixel position beyond an edge is nearer
\* to the centre than the radius
Contained(image, xpos, ypos, diameter) ==
    /\ 2 * xpos >= diameter /\ 2 * (FloatOf(Len(image[1]) - 1) - xpos) >= diameter
    /\ 2 * ypos >= diameter /\ 2 * (FloatOf(Len(image) - 1) - ypos) >= diameter

\* | n * flux / (pi * (diameter / 2)^2) - flux | <= flux / 100: the total of n
\* pixels that each hold flux / area, compared with flux exactly (the
\* rounding of the program's sum is below 1e-13 of it)
TotalWithinHundredth(n, diameter) ==
    /\ 99 * PiNum * diameter * diameter <= 400 * PiDen * n
    /\ 400 * PiDen * n <= 101 * PiNum * diameter * diameter

\* C17: add_uniform_disk with flux = 1.0 and diameter = 11 on a blank grid
\* large enough to contain the disk yields a total pixel sum within 1e-2 of
\* 1.0.
C17_DiskTotal ==
    (/\ called # NotRun /\ called.op = "add_uniform_disk" /\ raised = "none"
     /\ nops = 2 /\ called.args[3] = Unit /\ called.args[4] = FloatOf(11)
     /\ Contained(canvas.image, called.args[1], called.args[2], called.args[4]))
        => TotalWithinHundredth(Cardinality(Lit(canvas.image)), 11)

\* The case of a disk of diameter 11 about a pixel of the grid: 97 pixels
\* hold flux, and 97 / (pi * 5.5^2) is 1.0207
C17_Reached ==
    /\ called # NotRun /\ called.op = "add_uniform_disk" /\ raised = "none"
    /\ called.args[1] = 8 * Unit /\ called.args[2] = 8 * Unit
    /\ called.args[4] = FloatOf(11)
    /\ Len(canvas.image) = 16
    /\ Cardinality(Lit(canvas.image)) = 97

-----------------------------------------------------------------------------
(* Specification of reading a file another program wrote: the file is given, *)
(* an object is made or read with fromfilename, its parameters are edited,   *)
(* and it is written and read again.                                         *)

MaxReads == 3

ForeignPath == "foreign.fits"
ReadPaths == {ForeignPath, InputPath}

\* What a file holds under the name a reference key gives: nothing, an image
\* as this package writes it, a table, an image without scale, an image
\* without CDELT2, an image without HDUNAME, an image whose pixels are not
\* square, an image with HDUNAME and without EXTNAME
SectionKinds ==
    {"none", "image", "table", "noscale", "nocdelt2", "nohduname", "notsquare", "noextname"}

ForeignGrid == <<<<Unit, 0>>>>

NamedCards(cards, name) ==
    SetValue(SetValue(ImageCards(ForeignGrid) \o cards, "HDUNAME", StrVal(name)),
             "EXTNAME", StrVal(name))

ReferencedSection(kind, name) ==
    LET scale == MasToDeg(Unit \div 4) IN
    CASE kind = "none" -> <<>>
      [] kind = "image" -> <<HDU("image", NamedCards(ScaleCards(scale, scale), name), ForeignGrid)>>
      [] kind = "table" -> <<BinTableHDU(<<Card("EXTNAME", StrVal(name), "")>>)>>
      [] kind = "noscale" -> <<HDU("image", NamedCards(<<>>, name), ForeignGrid)>>
      [] kind = "nocdelt2" ->
            <<HDU("image", NamedCards(<<Card("CDELT1", NumVal(scale), "")>>, name), ForeignGrid)>>
      [] kind = "nohduname" ->
            <<HDU("image",
                  SetValue(ImageCards(ForeignGrid) \o ScaleCards(scale, scale),
                           "EXTNAME", StrVal(name)),
                  ForeignGrid)>>
      [] kind = "notsquare" ->
            <<HDU("image", NamedCards(ScaleCards(scale, MasToDeg(Unit \div 2)), name),
                  ForeignGrid)>>
      [] kind = "noextname" ->
            <<HDU("image",
                  SetValue(ImageCards(ForeignGrid) \o ScaleCards(scale, scale),
                           "HDUNAME", StrVal(name)),
                  ForeignGrid)>>

\* The input parameters of the file: some with a comment of their own, one
\* the package has no comment for, and the references to the sections held
ForeignInparam(initkind, priorkind) ==
    <<Card("EXTNAME", StrVal(INPUT_PARAM_NAME), ""),
      Card("TARGET", StrVal("star"), ""),
      Card("MAXITER", IntVal(100), "iterations allowed"),
      Card("THRESHLD", FloatVal("1e-3"), "")>>
    \o (IF initkind # "none" THEN <<Card("INIT_IMG", StrVal(INIT_IMG_NAME), "")>> ELSE <<>>)
    \o (IF priorkind # "none" THEN <<Card("RGL_PRIO", StrVal(PRIOR_IMG_NAME), "")>> ELSE <<>>)

\* The file: a primary section without data, data tables and other tables,
\* the sections referenced among them, the input parameters
ForeignFile(initkind, priorkind) ==
    <<HDU("primary",
          PrimaryCards(<<>>) \o <<Card("HDUVER", IntVal(1), ""),
                                  Card("ORIGIN", StrVal("ESO"), "")>>,
          <<>>),
      BinTableHDU(<<Card("EXTNAME", StrVal("OI_VIS2"), "")>>)>>
    \o ReferencedSection(initkind, INIT_IMG_NAME)
    \o <<BinTableHDU(<<Card("EXTNAME", StrVal("AUX_DATA"), "")>>),
         BinTableHDU(<<Card("EXTNAME", StrVal("OI_TARGET"), "")>>)>>
    \o ReferencedSection(priorkind, PRIOR_IMG_NAME)
    \o <<BinTableHDU(ForeignInparam(initkind, priorkind))>>

ForeignFiles == {ForeignFile(i, p) : i \in SectionKinds, p \in SectionKinds}

InitRead ==
    /\ \E file \in ForeignFiles : fs = (ForeignPath :> file) @@ (InputPath :> <<>>)
    /\ obj = NotRun
    /\ err = "none"
    /\ writer = [p \in ReadPaths |-> <<>>]
    /\ lastop = NotRun
    /\ steps = 0
    /\ IdleMerge /\ IdleLookup /\ IdleImg

NextRead ==
    /\ steps < MaxReads
    /\ \/ \E datafilename \in {"", ForeignPath} : Construct(datafilename)
       \/ \E filename \in ReadPaths : FromFilename(filename)
       \/ \E key \in EditKeys, value \in EditValues : EditParam(key, value)
       \/ \E overwrite \in BOOLEAN : Writeto(InputPath, overwrite)

SpecRead == InitRead /\ [][NextRead]_vars

-----------------------------------------------------------------------------
(* Properties of reading *)

\* The sections of the file that answer to the name the reference key gives
Referenced(file, key) ==
    IF ~HasKey(InparamOf(file), key) THEN {}
    ELSE {file[i] : i \in SectionsNamed(file, GetValue(InparamOf(file), key))}

\* What the file holds for a reference key, told from its sections: "absent"
\* (no key or no section), "table" (a section that is no image), "lacking"
\* (an image without CDELT1, CDELT2 or HDUNAME), "notsquare" (an image whose
\* CDELT1 and CDELT2 differ), "image" otherwise; "ambiguous" when several
\* sections answer
Holds(file, key) ==
    LET secs == Referenced(file, key) IN
    IF secs = {} THEN "absent"
    ELSE IF Cardinality(secs) > 1 THEN "ambiguous"
    ELSE LET sec == CHOOSE x \in secs : TRUE IN
         IF sec.kind \notin {"primary", "image"} THEN "table"
         ELSE IF \E k \in {"CDELT1", "CDELT2", "HDUNAME"} : ~HasKey(sec.header, k)
              THEN "lacking"
         ELSE IF GetValue(sec.header, "CDELT1") # GetValue(sec.header, "CDELT2")
              THEN "notsquare"
         ELSE "image"

\* Every section after the primary one has an EXTNAME
AllNamed(file) == \A i \in 2..Len(file) : HasKey(file[i].header, "EXTNAME")

\* A file with input parameters was read, one that the constructor
\* fromfilename starts with accepts
ReadParams ==
    /\ DidRead /\ fs[lastop'.path] # <<>>
    /\ AllNamed(fs[lastop'.path])
    /\ SectionsNamed(fs[lastop'.path], StrVal(INPUT_PARAM_NAME)) # {}

C21_WitnessInitial ==
    /\ lastop # NotRun /\ lastop = Op("fromfilename", ForeignPath, FALSE)
    /\ err = "TypeError"
    /\ Holds(fs[ForeignPath], "INIT_IMG") = "table"

C28_WitnessNotSquare ==
    /\ lastop # NotRun /\ lastop = Op("fromfilename", ForeignPath, FALSE)
    /\ err = "ValueError"
    /\ Holds(fs[ForeignPath], "INIT_IMG") = "lacking"
    /\ Holds(fs[ForeignPath], "RGL_PRIO") = "notsquare"

\* The sections after the primary one whose EXTNAME starts with 'OI_', in
\* the order of the file
OITables(file) ==
    SelectSeq(Tail(file),
              LAMBDA hdu : /\ HasKey(hdu.header, "EXTNAME")
                           /\ StartsWithOI(GetValue(hdu.header, "EXTNAME").s))

\* The call just made, by name
DidOp(names) == steps' = steps + 1 /\ lastop'.op \in names

\* The data tables after a call are those the claim tells, for the calls on
\* files that satisfy the condition given
TablesFollow(accepted(_)) ==
    /\ (DidOp({"init"}) /\ lastop'.path # "" /\ accepted(fs[lastop'.path])) =>
          (err' = "none" /\ obj'.datatables = OITables(fs[lastop'.path]))
    /\ DidOp({"edit", "initimg", "priorimg", "writeto"}) => obj'.datatables = obj.datatables
    /\ (DidOp({"writeto"}) /\ err' = "none") => OITables(fs'[lastop'.path]) = obj.datatables
    /\ (DidOp({"fromfilename"}) /\ err' = "none") =>
          obj'.datatables = OITables(fs[lastop'.path])

AnyFile(file) == file # <<>>
NamedFile(file) == file # <<>> /\ AllNamed(file)

\* C22: ImagingFile(datafile) fills datatables with a copy of exactly those
\* sections after the primary one whose EXTNAME starts with 'OI_', in their
\* original relative order, and no other section; data tables keep that
\* relative order through any later sequence of parameter edits, image
\* assignments, writeto and fromfilename.
C22_DataTables == [][TablesFollow(AnyFile)]_vars

\* The same for files in which every section after the primary one has an
\* EXTNAME
C22_NamedSections == [][TablesFollow(NamedFile)]_vars

\* C22 case: ImagingFile(datafile) was called on a file that holds tables
\* with and without the prefix and an image section
C22_Reached ==
    /\ lastop # NotRun /\ lastop = Op("init", ForeignPath, FALSE) /\ err = "none"
    /\ Len(obj.datatables) = 2 /\ Len(fs[ForeignPath]) = 6
    /\ TableNames(obj.datatables) = <<StrVal("OI_VIS2"), StrVal("OI_TARGET")>>

\* C24: writeto applies the known default comment to every input-parameter
\* key that lacks a comment and has an entry in the default-comment table,
\* leaves a non-empty existing comment as it is, leaves keys without a table
\* entry without comment, and changes no parameter value (nor key, nor the
\* order of the keys); the table written to the file carries these comments.
C24_ParamComments ==
    [][DidOp({"writeto"}) =>
          /\ Len(obj'.inparam) = Len(obj.inparam)
          /\ \A i \in 1..Len(obj.inparam) :
                LET old == obj.inparam[i]
                    new == obj'.inparam[i]
                IN  /\ new.key = old.key /\ new.value = old.value
                    /\ new.comment =
                         (IF old.comment = "" /\ old.key \in DOMAIN PARAM_COMMENTS
                          THEN PARAM_COMMENTS[old.key] ELSE old.comment)
                    /\ (err' = "none" /\ old.key \notin TableKeywords) =>
                          /\ HasKey(InparamOf(fs'[lastop'.path]), old.key)
                          /\ GetValue(InparamOf(fs'[lastop'.path]), old.key) = new.value
                          /\ GetComment(InparamOf(fs'[lastop'.path]), old.key) = new.comment]_vars

\* C24 witness: an object read from a file whose MAXITER has a comment of its
\* own, whose TARGET and INIT_IMG have none and whose THRESHLD is not in the
\* table of comments was written
C24_Witness ==
    /\ lastop # NotRun /\ lastop.op = "writeto" /\ err = "none"
    /\ GetComment(InparamOf(fs[ForeignPath]), "TARGET") = ""
    /\ GetValue(obj.inparam, "TARGET") = StrVal("star")
    /\ GetComment(obj.inparam, "TARGET") = PARAM_COMMENTS["TARGET"]
    /\ GetComment(obj.inparam, "MAXITER") = "iterations allowed"
    /\ HasKey(obj.inparam, "THRESHLD") /\ GetComment(obj.inparam, "THRESHLD") = ""
    /\ HasKey(obj.inparam, "INIT_IMG")
    /\ GetComment(obj.inparam, "INIT_IMG") = PARAM_COMMENTS["INIT_IMG"]
    /\ GetComment(InparamOf(fs[InputPath]), "MAXITER") = "iterations allowed"

-----------------------------------------------------------------------------
(* Properties of the coordinate keys kept in the descriptive header *)

CoordinateKeys == {"CDELT1", "CDELT2", "CTYPE1", "CTYPE2"}

\* The coordinate attributes of a canvas, as the values of the keys
CoordinatesOf(img) ==
    ("CDELT1" :> NumVal(img.cdelt[1])) @@ ("CDELT2" :> NumVal(img.cdelt[2]))
    @@ ("CTYPE1" :> StrVal(img.ctype[1])) @@ ("CTYPE2" :> StrVal(img.ctype[2]))

\* A coordinate attribute of the initial image differs from the stored one
AttributeDiffers(self) ==
    \E k \in CoordinateKeys :
        /\ HasKey(self.dataheader, k)
        /\ GetValue(self.dataheader, k) # CoordinatesOf(self.initimg)[k]

\* A coordinate key that the header of the initial image carries differs from
\* the stored one
CoordinateKeyDiffers(self) ==
    \E k \in CoordinateKeys :
        /\ HasKey(self.dataheader, k) /\ HasKey(PrimaryOf(self).header, k)
        /\ GetValue(self.dataheader, k) # GetValue(PrimaryOf(self).header, k)

\* fromfilename stores the coordinate keys of the primary section read, the
\* other calls keep what is stored, and a writeto of an object with stored
\* scale and an initial image raises ValueError and writes nothing when the
\* two differ in the sense given, and else writes the file with the stored
\* keys (or refuses to replace a file without overwrite)
CoordinatesKept(differs(_)) ==
    /\ (DidOp({"fromfilename"}) /\ err' = "none") =>
          \A k \in CoordinateKeys :
             HasKey(fs[lastop'.path][1].header, k) =>
                /\ HasKey(obj'.dataheader, k)
                /\ GetValue(obj'.dataheader, k) = GetValue(fs[lastop'.path][1].header, k)
    /\ DidOp({"edit", "initimg", "priorimg", "writeto"}) => obj'.dataheader = obj.dataheader
    /\ (DidOp({"writeto"}) /\ obj.initimg # NoneImg /\ HasKey(obj.dataheader, "CDELT1")) =>
          IF differs(obj) THEN err' = "ValueError" /\ fs' = fs
          ELSE \/ /\ err' = "none"
                  /\ \A k \in CoordinateKeys :
                        HasKey(obj.dataheader, k) =>
                           GetValue(fs'[lastop'.path][1].header, k) = GetValue(obj.dataheader, k)
               \/ /\ err' = "OSError" /\ ~lastop'.overwrite
                  /\ fs[lastop'.path] # <<>> /\ fs' = fs

\* C27: the descriptive dataheader keeps the coordinate keys of the primary
\* image it was read from: after G = fromfilename(f) for a file f with an
\* initial image, assigning G.initimg a canvas whose pixel scale (or other
\* coordinate attribute) differs from the stored one makes G.writeto raise
\* ValueError (merge conflict on the coordinate key, e.g. CDELT1) and write
\* nothing, whereas assigning a canvas with identical coordinate attributes
\* writes successfully.
C27_AttributeConflict == [][CoordinatesKept(AttributeDiffers)]_vars

\* C27 as amended: the conflict is on the coordinate keys that the header of
\* the canvas carries (CDELT1 and CDELT2 always, CTYPE1 and CTYPE2 when the
\* axis types are set): a differing value makes writeto raise ValueError and
\* write nothing; a canvas that carries no differing key is written, with
\* the stored value of every coordinate key, also of those it does not carry.
C27_KeyConflict == [][CoordinatesKept(CoordinateKeyDiffers)]_vars

\* C27 witness: an object was read from the output file, its initial image
\* replaced by a canvas of another pixel scale, and the write was refused
C27_Witness ==
    /\ lastop # NotRun /\ lastop.op = "writeto" /\ err = "ValueError"
    /\ obj.initimg # NoneImg /\ HasKey(obj.dataheader, "CDELT1")
    /\ GetValue(obj.dataheader, "CDELT1") = NumVal(MasToDeg(Unit \div 4))
    /\ obj.initimg.cdelt[1] = MasToDeg(Unit \div 2)
    /\ obj.priorimg = NoneImg
    /\ fs[InputPath] = <<>>

\* The canvas assigned has the stored scale and no axis types: it was
\* written, under the axis types stored
C27_WitnessWritten ==
    /\ lastop # NotRun /\ lastop.op = "writeto" /\ err = "none"
    /\ obj.initimg # NoneImg /\ HasKey(obj.dataheader, "CTYPE1")
    /\ obj.initimg.cdelt[1] = GetValue(obj.dataheader, "CDELT1").n
    /\ obj.initimg.ctype = <<"", "">>
    /\ GetValue(fs[InputPath][1].header, "CTYPE1") = StrVal("RA")

-----------------------------------------------------------------------------
(* Properties of writing again what was read *)

\* The kind and the name of every section of a file, in order
SectionSequence(file) ==
    [i \in 1..Len(file) |->
        <<file[i].kind,
          IF HasKey(file[i].header, "EXTNAME") THEN GetValue(file[i].header, "EXTNAME").s
          ELSE IF HasKey(file[i].header, "HDUNAME")
               THEN GetValue(file[i].header, "HDUNAME").s ELSE "">>]

\* The object but for the values of the parameters that are edited
ButEdited(self) ==
    [self EXCEPT !.inparam = [i \in 1..Len(@) |->
                                 IF @[i].key \in EditKeys
                                 THEN [@[i] EXCEPT !.value = NoneVal] ELSE @[i]]]

\* The object in hand is what fromfilename makes of the file at path, a file
\* that an ImagingFile wrote, but for values of input parameters edited since
ReadFrom(path) ==
    /\ obj # NotRun /\ writer[path] # <<>>
    /\ fromfilename(fs, path).err = "none"
    /\ ButEdited(obj) = ButEdited(fromfilename(fs, path).value)

\* Writing the object read from the file at path gives the sections and the
\* primary scalar keys that file had (or is refused for a file that exists,
\* without overwrite)
Rewritten(path) ==
    \/ /\ err' = "none"
       /\ SectionSequence(fs'[lastop'.path]) = SectionSequence(fs[path])
       /\ ScalarMap(fs'[lastop'.path][1].header) = ScalarMap(fs[path][1].header)
    \/ /\ err' = "OSError" /\ ~lastop'.overwrite /\ fs[lastop'.path] # <<>> /\ fs' = fs

\* C26: re-writing an unmodified file is stable: for any ImagingFile F that
\* writes successfully to f, G = fromfilename(f) followed by G.writeto(g)
\* raises no merge conflict, and g has the same section sequence and the same
\* primary-header scalar keys and values as f; the same holds after only
\* input-parameter values are edited between read and write.
C26_RewriteStable ==
    [][DidOp({"writeto"}) => \A path \in Paths : ReadFrom(path) => Rewritten(path)]_vars

\* The input parameters of the file do not give the same name under
\* INIT_IMG and under RGL_PRIO
DistinctReferences(file) ==
    (HasKey(InparamOf(file), "INIT_IMG") /\ HasKey(InparamOf(file), "RGL_PRIO")) =>
        GetValue(InparamOf(file), "INIT_IMG") # GetValue(InparamOf(file), "RGL_PRIO")

\* The same for files whose two reference keys give different names
C26_DistinctNames ==
    [][DidOp({"writeto"}) =>
          \A path \in Paths :
             (ReadFrom(path) /\ DistinctReferences(fs[path])) => Rewritten(path)]_vars

\* C26 case: a file with both images, of different names, was read, a
\* parameter edited, and the object written over the file
C26_Reached ==
    /\ lastop # NotRun /\ lastop = Op("writeto", InputPath, TRUE) /\ err = "none"
    /\ obj.initimg # NoneImg /\ obj.priorimg # NoneImg
    /\ obj.initimg.name # obj.priorimg.name
    /\ GetValue(obj.inparam, "MAXITER") = IntVal(50)
    /\ fromfilename(fs, InputPath).err = "none"
    /\ obj = fromfilename(fs, InputPath).value
    /\ steps = MaxSteps

-----------------------------------------------------------------------------
(* The legacy module ImagingFile.py at the top of the repository: the same  *)
(* class with other defaults, with initimg and priorimg as properties over  *)
(* the fields _initimg and _priorimg, and a writeto with clobber.  The      *)
(* object of the model holds the two fields as initimg and priorimg.        *)

MaxLegacyOps == 3

LEGACY_DEFAULT_PARAM ==
    << <<"WAVE_MIN", FloatVal("0.1e-6")>>, <<"WAVE_MAX", FloatVal("50e-6")>>,
       <<"USE_VIS", BoolVal(TRUE)>>, <<"USE_VIS2", BoolVal(TRUE)>>,
       <<"USE_T3", BoolVal(TRUE)>>, <<"MAXITER", IntVal(200)>>,
       <<"RGL_NAME", StrVal("mem_prior")>>, <<"RGL_WGT", FloatVal("1e5")>> >>

\* ImagingFile.__init__ of the legacy module, without data file
LegacyInit ==
    [dataheader |-> <<>>, datatables |-> <<>>,
     inparam |-> <<Card("EXTNAME", StrVal(INPUT_PARAM_NAME), "")>>
                 \o [i \in 1..Len(LEGACY_DEFAULT_PARAM) |->
                        Card(LEGACY_DEFAULT_PARAM[i][1], LEGACY_DEFAULT_PARAM[i][2], "")],
     outparam |-> <<>>, initimg |-> NoneImg, priorimg |-> NoneImg]

\* The property initimg: @property def initimg, return self._initimg
LegacyGetInitimg(self) == self.initimg

\* A property priorimg made of its own getter: return self._priorimg
LegacyGetOwnPriorimg(self) == self.priorimg

\* The property priorimg.  The class body defines priorimg as a property
\* returning self._priorimg and then rebinds the name with
\* '@initimg.setter def priorimg': a copy of the property initimg (its
\* getter) with the function below it as setter
LegacyGetPriorimg(self) == LegacyGetInitimg(self)

\* The setters of the two properties
LegacySetInitimg(self, img) ==
    [self EXCEPT !.initimg = img, !.inparam = SetValue(@, "INIT_IMG", StrVal(img.name))]

LegacySetPriorimg(self, img) ==
    [self EXCEPT !.priorimg = img, !.inparam = SetValue(@, "RGL_PRIO", StrVal(img.name))]

\* ImagingFile.fromfilename of the legacy module: the constructor copies the
\* primary cards and the OI_ tables as above, the parameters are those of the
\* file, and the images found are assigned through the two properties
LegacyFromfilename(files, filename) ==
    LET made == ImagingFileInit(files, filename) IN
    IF made.err # "none" THEN made
    ELSE LET hdus == files[filename]
             inp == HDUListGetItem(hdus, IndexName(INPUT_PARAM_NAME))
         IN  IF inp.status # "ok" THEN Raise(inp.status)
             ELSE LET out == HDUListGetItem(hdus, IndexName(OUTPUT_PARAM_NAME))
                      self1 == [made.value EXCEPT
                                  !.inparam = hdus[inp.at].header,
                                  !.outparam = IF out.status = "ok"
                                               THEN <<hdus[out.at].header>> ELSE <<>>]
                      init == frominputfilename(hdus, "INIT_IMG")
                      self2 == IF init.err = "none" THEN LegacySetInitimg(self1, init.value)
                               ELSE self1
                      prior == frominputfilename(hdus, "RGL_PRIO")
                      self3 == IF prior.err = "none" THEN LegacySetPriorimg(self2, prior.value)
                               ELSE self2
                  IN  IF init.err \notin {"none", "KeyError"} THEN Raise(init.err)
                      ELSE IF prior.err \notin {"none", "KeyError"} THEN Raise(prior.err)
                      ELSE Return(self3)

\* ImagingFile.writeto of the legacy module: the exception raised and the
\* files afterwards
LegacyWriteto(self, files, filename, clobber) ==
    LET primary == IF LegacyGetInitimg(self) # NoneImg
                   THEN make_primary_hdu(LegacyGetInitimg(self)) ELSE EmptyPrimaryHDU
        prior == IF LegacyGetPriorimg(self) # NoneImg
                 THEN <<make_image_hdu(LegacyGetPriorimg(self))>> ELSE <<>>
        header == mergeheaders(<<primary.header, self.dataheader>>)
    IN  IF ~header.ok THEN [err |-> "ValueError", files |-> files]
        ELSE IF files[filename] # <<>> /\ ~clobber THEN [err |-> "OSError", files |-> files]
        ELSE [err |-> "none",
              files |-> [files EXCEPT ![filename] =
                            <<[primary EXCEPT !.header = header.hdr]>> \o prior
                            \o self.datatables \o <<BinTableHDU(self.inparam)>>
                            \o (IF self.outparam # <<>>
                                THEN <<BinTableHDU(self.outparam[1])>> ELSE <<>>)]]

\* The call made: the method or property, the file, and the image assigned
LegacyOp(name, path, img) == [op |-> name, path |-> path, img |-> img]

InitLegacy ==
    /\ fs = (InputPath :> <<>>)
    /\ obj = NotRun
    /\ err = "none"
    /\ writer = (InputPath :> <<>>)
    /\ lastop = NotRun
    /\ steps = 0
    /\ IdleMerge /\ IdleLookup /\ IdleImg

\* inp = ImagingFile()
LegacyConstruct ==
    /\ steps < MaxLegacyOps
    /\ obj' = LegacyInit
    /\ err' = "none"
    /\ lastop' = LegacyOp("init", "", NoneImg)
    /\ steps' = steps + 1
    /\ UNCHANGED <<fs, writer, mergeVars, lookupVars, imgVars>>

\* inp = ImagingFile.fromfilename(filename)
LegacyRead(filename) ==
    /\ steps < MaxLegacyOps
    /\ LET made == LegacyFromfilename(fs, filename) IN
       /\ err' = made.err
       /\ obj' = IF made.err = "none" THEN made.value ELSE obj
    /\ lastop' = LegacyOp("fromfilename", filename, NoneImg)
    /\ steps' = steps + 1
    /\ UNCHANGED <<fs, writer, mergeVars, lookupVars, imgVars>>

\* inp.initimg = img
LegacyAssignInitimg(img) ==
    /\ steps < MaxLegacyOps
    /\ obj # NotRun
    /\ obj' = LegacySetInitimg(obj, img)
    /\ err' = "none"
    /\ lastop' = LegacyOp("initimg", "", img)
    /\ steps' = steps + 1
    /\ UNCHANGED <<fs, writer, mergeVars, lookupVars, imgVars>>

\* inp.priorimg = img
LegacyAssignPriorimg(img) ==
    /\ steps < MaxLegacyOps
    /\ obj # NotRun
    /\ obj' = LegacySetPriorimg(obj, img)
    /\ err' = "none"
    /\ lastop' = LegacyOp("priorimg", "", img)
    /\ steps' = steps + 1
    /\ UNCHANGED <<fs, writer, mergeVars, lookupVars, imgVars>>

\* inp.writeto(filename, clobber=True)
LegacyWrite(filename) ==
    /\ steps < MaxLegacyOps
    /\ obj # NotRun
    /\ LET done == LegacyWriteto(obj, fs, filename, TRUE) IN
       /\ err' = done.err
       /\ fs' = done.files
       /\ writer' = IF done.err = "none" THEN [writer EXCEPT ![filename] = <<obj>>]
                    ELSE writer
    /\ lastop' = LegacyOp("writeto", filename, NoneImg)
    /\ steps' = steps + 1
    /\ UNCHANGED <<obj, mergeVars, lookupVars, imgVars>>

NextLegacy ==
    \/ LegacyConstruct
    \/ LegacyRead(InputPath)
    \/ \E img \in ModelImages : LegacyAssignInitimg(img)
    \/ \E img \in ModelImages : LegacyAssignPriorimg(img)
    \/ LegacyWrite(InputPath)

SpecLegacy == InitLegacy /\ [][NextLegacy]_vars

-----------------------------------------------------------------------------
(* Properties of the legacy module *)

\* The image sections of a file after the primary one
ImageSectionsOf(file) == {i \in 2..Len(file) : file[i].kind = "image"}

\* What reading priorimg returns, with the getter given: None after
\* construction, the canvas assigned after an assignment to priorimg, the
\* same as before after an assignment to initimg or a write; and a write
\* appends a prior-image section if and only if a prior image was assigned
PriorimgRead(getter(_)) ==
    /\ DidOp({"init"}) => getter(obj') = NoneImg
    /\ DidOp({"priorimg"}) => getter(obj') = lastop'.img
    /\ DidOp({"initimg", "writeto"}) => getter(obj') = getter(obj)
    /\ (DidOp({"writeto"}) /\ err' = "none") =>
          /\ obj.priorimg # NoneImg =>
                /\ ImageSectionsOf(fs'[lastop'.path]) = {2}
                /\ fs'[lastop'.path][2] = make_image_hdu(obj.priorimg)
          /\ obj.priorimg = NoneImg => ImageSectionsOf(fs'[lastop'.path]) = {}

\* C25: in the legacy module ImagingFile.py, reading the priorimg attribute
\* returns the prior image object: None until a prior image is assigned, and
\* afterwards the canvas most recently assigned to priorimg, independently of
\* what was assigned to initimg; writeto accordingly appends a prior-image
\* section if and only if a prior image was assigned.
C25_PriorimgAttribute == [][PriorimgRead(LegacyGetPriorimg)]_vars

\* What the legacy module does: priorimg reads the initial image, and writeto
\* appends an image section, made of the initial image, if and only if an
\* initial image was assigned
C25_ReadsInitialImage ==
    [][/\ obj' # NotRun => LegacyGetPriorimg(obj') = obj'.initimg
       /\ (DidOp({"writeto"}) /\ err' = "none") =>
             /\ obj.initimg # NoneImg =>
                   /\ ImageSectionsOf(fs'[lastop'.path]) = {2}
                   /\ fs'[lastop'.path][2] = make_image_hdu(obj.initimg)
             /\ obj.initimg = NoneImg => ImageSectionsOf(fs'[lastop'.path]) = {}]_vars

\* C25 case: a prior image and no initial image was assigned, and the object
\* was written: the file has no image section
C25_Reached ==
    /\ lastop # NotRun /\ lastop.op = "writeto" /\ err = "none"
    /\ obj.priorimg # NoneImg /\ obj.initimg = NoneImg
    /\ HasKey(obj.inparam, "RGL_PRIO")
    /\ ImageSectionsOf(fs[InputPath]) = {}

====
